---- MODULE Spec2Model ----
(***************************************************************************)
(* Action execution engine of q-deck-launcher                              *)
(* (src-tauri/src/modules/action.rs): the ActionRunner dispatcher, the     *)
(* LaunchApp / Open / Terminal leaf executors and the MultiAction          *)
(* composite executor, as a state machine.  One behaviour of Spec is one   *)
(* top-level call of ActionRunner::execute_action_config on `input`.  One  *)
(* behaviour of ExecutorSpec is one call of a single leaf executor, or of  *)
(* a drag-and-drop config builder (drag_drop.rs), followed step by step    *)
(* with its paths, verbs and platform calls spelled out.                   *)
(***************************************************************************)
EXTENDS Integers, Sequences, FiniteSets, TLC

VARIABLES
    input,      \* the ActionConfig handed to the top-level dispatch
    windows,    \* build target: TRUE iff compiled with cfg(windows)
    phase,      \* "start" | "running" | "done": position of the top-level call
    stack,      \* active MultiActionExecutor::execute frames, innermost last
    ret,        \* value returned by the top-level dispatch
    clock,      \* wall clock in ms (std::time::Instant)
    log         \* history: dispatches, returns, delay tests and sleeps, in order

vars ==
    <<input, windows, phase, stack, ret, clock, log>>

(***************************************************************************)
(* Bounds of the model and constants of the program.                       *)
(***************************************************************************)
MaxLen ==
    3

ExplicitDelayMs ==
    50

PlatformCallMs ==
    1

DefaultDelayMs ==
    100

ShellSuccessThreshold ==
    32

ShellNoHandler ==
    2

(***************************************************************************)
(* Option<T>: None is the empty tuple, Some(x) the one-element tuple.      *)
(***************************************************************************)
None ==
    <<>>

Some(x) ==
    <<x>>

unwrap_or(o, d) ==
    IF Len(o) = 0 THEN d ELSE o[1]

(***************************************************************************)
(* ActionConfig: the tagged union.  Every variant carries the same record  *)
(* fields; a variant leaves the fields it does not have at their neutral   *)
(* value.  Only the fields that decide control flow are kept.              *)
(***************************************************************************)
ActionConfig(type, terminal, actions, delay_between_ms, stop_on_error) ==
    [type |-> type, terminal |-> terminal, actions |-> actions,
     delay_between_ms |-> delay_between_ms, stop_on_error |-> stop_on_error]

LaunchApp ==
    ActionConfig("LaunchApp", "", <<>>, None, None)

Open ==
    ActionConfig("Open", "", <<>>, None, None)

Terminal(terminal) ==
    ActionConfig("Terminal", terminal, <<>>, None, None)

SendKeys ==
    ActionConfig("SendKeys", "", <<>>, None, None)

PowerShell ==
    ActionConfig("PowerShell", "", <<>>, None, None)

MultiAction(actions, delay_between_ms, stop_on_error) ==
    ActionConfig("MultiAction", "", actions, delay_between_ms, stop_on_error)

(***************************************************************************)
(* ActionResult and the Result<ActionResult> a dispatch returns.           *)
(* A message is kept as its format string and its arguments.               *)
(***************************************************************************)
Message(text, arg, n, m) ==
    [text |-> text, arg |-> arg, n |-> n, m |-> m]

ActionResult(success, message, execution_time_ms, output, error_code) ==
    [success |-> success, message |-> message,
     execution_time_ms |-> execution_time_ms,
     output |-> output, error_code |-> error_code]

NoResult ==
    ActionResult(FALSE, Message("", "", 0, 0), 0, None, None)

Ok(result) ==
    [tag |-> "Ok", result |-> result, error |-> ""]

Err(error) ==
    [tag |-> "Err", result |-> NoResult, error |-> error]

NotReturned ==
    [tag |-> "Pending", result |-> NoResult, error |-> ""]

(***************************************************************************)
(* What the platform answers to one leaf execution: the outcome of         *)
(* Command::spawn and Child::try_wait, the kind of the file at the target  *)
(* path, and the status of the primary and of the fallback ShellExecuteW.  *)
(* spawn is "spawn_failed", "wait_failed", "running", "exited" (with exit  *)
(* status code) or "signaled" (ended without an exit code:                 *)
(* ExitStatus::code is None).                                              *)
(***************************************************************************)
DefaultPlatform ==
    [spawn |-> "running", code |-> 0, file |-> "missing", shell |-> 33, fallback |-> 33]

SpawnPlatforms ==
    { [DefaultPlatform EXCEPT !.spawn = o[1], !.code = o[2]] :
        o \in { <<"spawn_failed", 0>>, <<"running", 0>>, <<"exited", 0>>,
                <<"exited", 1>>, <<"wait_failed", 0>> } }

FileKinds ==
    {"missing", "file", "dir"}

ShellStatuses ==
    {ShellNoHandler, ShellSuccessThreshold, ShellSuccessThreshold + 1}

FallbackStatuses ==
    {ShellNoHandler, ShellSuccessThreshold + 1}

OpenPlatforms ==
    { [DefaultPlatform EXCEPT !.file = f, !.shell = s, !.fallback = b] :
        f \in FileKinds, s \in ShellStatuses, b \in FallbackStatuses }

(***************************************************************************)
(* Leaf executors.  Each yields what it returns and the platform           *)
(* primitives it invoked on the way; call_ms is the duration of one        *)
(* platform call.                                                          *)
(***************************************************************************)
Outcome(returned, calls) ==
    [returned |-> returned, calls |-> calls]

SpawnAndPoll_spawn_error_propagates(what, platform, call_ms) ==
    CASE platform.spawn = "spawn_failed" ->
            Outcome(Err("spawn failed"), <<"spawn">>)
      [] platform.spawn = "wait_failed" ->
            Outcome(Ok(ActionResult(FALSE, Message("Failed to check status", what, 0, 0),
                                    call_ms, None, None)),
                    <<"spawn", "try_wait">>)
      [] platform.spawn = "running" ->
            Outcome(Ok(ActionResult(TRUE, Message("launched successfully", what, 0, 0),
                                    call_ms, None, None)),
                    <<"spawn", "try_wait">>)
      [] platform.spawn = "exited" ->
            Outcome(IF platform.code = 0
                    THEN Ok(ActionResult(TRUE, Message("launched successfully", what, 0, 0),
                                         call_ms, None, None))
                    ELSE Ok(ActionResult(FALSE, Message("exited with error", what, 0, 0),
                                         call_ms, None, Some(platform.code))),
                    <<"spawn", "try_wait">>)
      [] platform.spawn = "signaled" ->
            Outcome(Ok(ActionResult(FALSE, Message("exited with error", what, 0, 0),
                                    call_ms, None, None)),
                    <<"spawn", "try_wait">>)

SpawnAndPoll_exit_code_dropped(what, platform, call_ms) ==
    CASE platform.spawn = "spawn_failed" ->
            Outcome(Ok(ActionResult(FALSE, Message("Failed to launch", what, 0, 0),
                                    call_ms, None, None)),
                    <<"spawn">>)
      [] platform.spawn = "wait_failed" ->
            Outcome(Ok(ActionResult(FALSE, Message("Failed to check status", what, 0, 0),
                                    call_ms, None, None)),
                    <<"spawn", "try_wait">>)
      [] platform.spawn = "running" ->
            Outcome(Ok(ActionResult(TRUE, Message("launched successfully", what, 0, 0),
                                    call_ms, None, None)),
                    <<"spawn", "try_wait">>)
      [] platform.spawn = "exited" ->
            Outcome(IF platform.code = 0
                    THEN Ok(ActionResult(TRUE, Message("launched successfully", what, 0, 0),
                                         call_ms, None, None))
                    ELSE Ok(ActionResult(FALSE, Message("exited with error", what, 0, 0),
                                         call_ms, None, None)),
                    <<"spawn", "try_wait">>)
      [] platform.spawn = "signaled" ->
            Outcome(Ok(ActionResult(FALSE, Message("exited with error", what, 0, 0),
                                    call_ms, None, None)),
                    <<"spawn", "try_wait">>)

SpawnAndPoll(what, platform, call_ms) ==
    CASE platform.spawn = "spawn_failed" ->
            Outcome(Ok(ActionResult(FALSE, Message("Failed to launch", what, 0, 0),
                                    call_ms, None, None)),
                    <<"spawn">>)
      [] platform.spawn = "wait_failed" ->
            Outcome(Ok(ActionResult(FALSE, Message("Failed to check status", what, 0, 0),
                                    call_ms, None, None)),
                    <<"spawn", "try_wait">>)
      [] platform.spawn = "running" ->
            Outcome(Ok(ActionResult(TRUE, Message("launched successfully", what, 0, 0),
                                    call_ms, None, None)),
                    <<"spawn", "try_wait">>)
      [] platform.spawn = "exited" ->
            Outcome(IF platform.code = 0
                    THEN Ok(ActionResult(TRUE, Message("launched successfully", what, 0, 0),
                                         call_ms, None, None))
                    ELSE Ok(ActionResult(FALSE, Message("exited with error", what, 0, 0),
                                         call_ms, None, Some(platform.code))),
                    <<"spawn", "try_wait">>)
      [] platform.spawn = "signaled" ->
            Outcome(Ok(ActionResult(FALSE, Message("exited with error", what, 0, 0),
                                    call_ms, None, None)),
                    <<"spawn", "try_wait">>)

LaunchAppActionExecutor_execute(config, platform, call_ms) ==
    IF config.type = "LaunchApp"
    THEN SpawnAndPoll("Application", platform, call_ms)
    ELSE Outcome(Err("Invalid action config for LaunchApp executor"), <<>>)

OpenActionExecutor_execute(config, platform, win, call_ms) ==
    IF config.type # "Open"
    THEN Outcome(Err("Invalid action config for Open executor"), <<>>)
    ELSE IF ~win
    THEN Outcome(Ok(ActionResult(FALSE,
                                 Message("Open action is only supported on Windows", "", 0, 0),
                                 0, None, None)),
                 <<>>)
    ELSE IF platform.shell > ShellSuccessThreshold
    THEN Outcome(Ok(ActionResult(TRUE, Message("Opened successfully", "", 0, 0),
                                 call_ms, None, None)),
                 <<"ShellExecuteW">>)
    ELSE IF platform.shell = ShellNoHandler
    THEN IF platform.file = "file"
         THEN IF platform.fallback > ShellSuccessThreshold
              THEN Outcome(Ok(ActionResult(TRUE, Message("Opened with Notepad", "", 0, 0),
                                           2 * call_ms, None, None)),
                           <<"ShellExecuteW", "ShellExecuteW notepad">>)
              ELSE Outcome(Ok(ActionResult(FALSE,
                                           Message("No default program and Notepad fallback failed",
                                                   "", 0, 0),
                                           2 * call_ms, None, Some(platform.shell))),
                           <<"ShellExecuteW", "ShellExecuteW notepad">>)
         ELSE Outcome(Ok(ActionResult(FALSE, Message("File does not exist", "", 0, 0),
                                      call_ms, None, Some(platform.shell))),
                      <<"ShellExecuteW">>)
    ELSE Outcome(Ok(ActionResult(FALSE, Message("System error", "", platform.shell, 0),
                                 call_ms, None, Some(platform.shell))),
                 <<"ShellExecuteW">>)

TerminalProgram(terminal) ==
    CASE terminal \in {"WindowsTerminal", "wt"} -> "wt"
      [] terminal \in {"PowerShell", "pwsh"} -> "powershell"
      [] terminal \in {"Cmd", "cmd"} -> "cmd"
      [] terminal \in {"WSL", "wsl"} -> "wsl"
      [] OTHER -> ""

TerminalActionExecutor_execute_unsupported_is_error(config, platform, call_ms) ==
    IF config.type # "Terminal"
    THEN Outcome(Err("Invalid action config for Terminal executor"), <<>>)
    ELSE IF TerminalProgram(config.terminal) = ""
    THEN Outcome(Err("Unsupported terminal type"), <<>>)
    ELSE SpawnAndPoll("Terminal", platform, call_ms)

TerminalActionExecutor_execute(config, platform, call_ms) ==
    IF config.type # "Terminal"
    THEN Outcome(Err("Invalid action config for Terminal executor"), <<>>)
    ELSE IF TerminalProgram(config.terminal) = ""
    THEN Outcome(Ok(ActionResult(FALSE,
                                 Message("Unsupported terminal type", config.terminal, 0, 0),
                                 0, None, None)),
                 <<>>)
    ELSE SpawnAndPoll("Terminal", platform, call_ms)

(***************************************************************************)
(* ActionRunner: the registry and first-match dispatch.                    *)
(***************************************************************************)
Executors ==
    <<"LaunchApp", "Open", "Terminal">>

supports_action_type_open_takes_terminal(executor, config) ==
    CASE executor = "LaunchApp" -> config.type = "LaunchApp"
      [] executor = "Open" -> config.type \in {"Open", "Terminal"}
      [] executor = "Terminal" -> config.type = "Terminal"
      [] executor = "MultiAction" -> config.type = "MultiAction"

supports_action_type(executor, config) ==
    CASE executor = "LaunchApp" -> config.type = "LaunchApp"
      [] executor = "Open" -> config.type = "Open"
      [] executor = "Terminal" -> config.type = "Terminal"
      [] executor = "MultiAction" -> config.type = "MultiAction"

execute(executor, config, platform, win, call_ms) ==
    CASE executor = "LaunchApp" -> LaunchAppActionExecutor_execute(config, platform, call_ms)
      [] executor = "Open" -> OpenActionExecutor_execute(config, platform, win, call_ms)
      [] executor = "Terminal" -> TerminalActionExecutor_execute(config, platform, call_ms)

RECURSIVE FindExecutor(_, _)
FindExecutor(i, config) ==
    IF i > Len(Executors) THEN 0
    ELSE IF supports_action_type(Executors[i], config) THEN i
    ELSE FindExecutor(i + 1, config)

Consulted(config) ==
    LET i == FindExecutor(1, config)
    IN  IF i = 0 THEN Executors ELSE SubSeq(Executors, 1, i)

Route(config) ==
    LET i == FindExecutor(1, config)
    IN  IF i # 0 THEN Executors[i]
        ELSE IF config.type = "MultiAction" THEN "MultiAction"
        ELSE "none"

Platforms(config) ==
    CASE Route(config) = "LaunchApp" -> SpawnPlatforms
      [] Route(config) = "Terminal" -> SpawnPlatforms
      [] Route(config) = "Open" -> OpenPlatforms
      [] OTHER -> {DefaultPlatform}

execute_action_config_failure_result(config, platform, win, call_ms) ==
    IF Route(config) = "none"
    THEN Outcome(Ok(ActionResult(FALSE, Message("No executor found for action type", "", 0, 0),
                                 0, None, None)),
                 <<>>)
    ELSE execute(Route(config), config, platform, win, call_ms)

execute_action_config(config, platform, win, call_ms) ==
    IF Route(config) = "none"
    THEN Outcome(Err("No executor found for action type"), <<>>)
    ELSE execute(Route(config), config, platform, win, call_ms)

(***************************************************************************)
(* MultiActionExecutor::execute.  A frame is one activation: its locals    *)
(* and its position (pc): "dispatch" before the dispatch of                *)
(* actions[index], "await" while a nested composite runs, "delay" at the   *)
(* inter-step delay test, "aggregate" once the loop is left.               *)
(***************************************************************************)
delay_ms_absent_zero(config) ==
    unwrap_or(config.delay_between_ms, 0)

delay_ms(config) ==
    unwrap_or(config.delay_between_ms, DefaultDelayMs)

stop_on_error_default_false(config) ==
    unwrap_or(config.stop_on_error, FALSE)

stop_on_error_of_root(config) ==
    unwrap_or(input.stop_on_error, TRUE)

stop_on_error(config) ==
    unwrap_or(config.stop_on_error, TRUE)

NewFrame(config, path, now) ==
    [path |-> path,
     actions |-> config.actions,
     delay_ms |-> delay_ms(config),
     stop_on_error |-> stop_on_error(config),
     results |-> <<>>,
     total_success |-> TRUE,
     index |-> 0,
     start_time |-> now,
     pc |-> IF Len(config.actions) = 0 THEN "aggregate" ELSE "dispatch"]

StepFailed(returned) ==
    IF returned.tag = "Ok" THEN ~returned.result.success ELSE TRUE

SynthesizedFailure(index, error) ==
    ActionResult(FALSE, Message("Step error", error, index + 1, 0), 0, None, None)

PushResult_ok_only(results, index, returned) ==
    IF returned.tag = "Ok" THEN Append(results, returned.result) ELSE results

PushResult(results, index, returned) ==
    IF returned.tag = "Ok"
    THEN Append(results, returned.result)
    ELSE Append(results, SynthesizedFailure(index, returned.error))

BreakLoop_on_any_failure(failed, stop) ==
    failed

BreakLoop(failed, stop) ==
    failed /\ stop

\* A loop whose task is dropped while it awaits the step: the match on the
\* step's result never runs.
StepReturned_dropped_while_awaiting(frame, returned) ==
    [frame EXCEPT !.pc = "await"]

StepReturned(frame, returned) ==
    [frame EXCEPT
        !.results = PushResult(@, frame.index, returned),
        !.total_success = IF StepFailed(returned) THEN FALSE ELSE @,
        !.pc = IF BreakLoop(StepFailed(returned), frame.stop_on_error)
               THEN "aggregate" ELSE "delay"]

DelayDue_through_last(index, len, delay) ==
    index < len /\ delay > 0

DelayDue(index, len, delay) ==
    index < len - 1 /\ delay > 0

NextIteration(frame) ==
    [frame EXCEPT
        !.index = @ + 1,
        !.pc = IF frame.index + 1 < Len(frame.actions) THEN "dispatch" ELSE "aggregate"]

successful_steps(results) ==
    Cardinality({i \in 1..Len(results) : results[i].success})

AggregateResult_of_all_steps(frame, now) ==
    ActionResult(frame.total_success,
                 Message("Multi-action: steps successful", "",
                         successful_steps(frame.results), Len(frame.actions)),
                 now - frame.start_time,
                 Some(frame.results),
                 None)

AggregateResult_needs_a_step(frame, now) ==
    ActionResult(successful_steps(frame.results) > 0,
                 Message("Multi-action: steps successful", "",
                         successful_steps(frame.results), Len(frame.results)),
                 now - frame.start_time,
                 Some(frame.results),
                 None)

AggregateResult(frame, now) ==
    ActionResult(frame.total_success,
                 Message("Multi-action: steps successful", "",
                         successful_steps(frame.results), Len(frame.results)),
                 now - frame.start_time,
                 Some(frame.results),
                 None)

(***************************************************************************)
(* History events: "dispatch" (execute_action_config entered; what = the   *)
(* executor whose execute runs, consulted = the executors asked before),   *)
(* "call" (a platform primitive invoked; what = the primitive), "return"   *)
(* (the dispatch returned), "check" (the delay test evaluated in the       *)
(* composite at path, after step index) and "sleep".                       *)
(***************************************************************************)
Event(ev, path, what, consulted, returned, platform, index, ms) ==
    [ev |-> ev, path |-> path, what |-> what, consulted |-> consulted,
     returned |-> returned, platform |-> platform, index |-> index, ms |-> ms]

DispatchEvent(config, path) ==
    Event("dispatch", path, Route(config), Consulted(config), NotReturned, DefaultPlatform, 0, 0)

CallEvents(path, calls) ==
    [i \in 1..Len(calls) |->
        Event("call", path, calls[i], <<>>, NotReturned, DefaultPlatform, 0, 0)]

ReturnEvent(path, returned, platform) ==
    Event("return", path, "", <<>>, returned, platform, 0, 0)

CheckEvent(path, index) ==
    Event("check", path, "", <<>>, NotReturned, DefaultPlatform, index, 0)

SleepEvent(path, index, ms) ==
    Event("sleep", path, "", <<>>, NotReturned, DefaultPlatform, index, ms)

LeafEvents(config, path, outcome, platform) ==
    <<DispatchEvent(config, path)>> \o CallEvents(path, outcome.calls)
        \o <<ReturnEvent(path, outcome.returned, platform)>>

Elapsed(returned) ==
    IF returned.tag = "Ok" THEN returned.result.execution_time_ms ELSE 0

Top ==
    stack[Len(stack)]

SetTop(frame) ==
    [stack EXCEPT ![Len(stack)] = frame]

(***************************************************************************)
(* Inputs of the model.                                                    *)
(***************************************************************************)
SeqsUpTo(S, n) ==
    UNION { [1..k -> S] : k \in 0..n }

DelayOptions ==
    {None, Some(0), Some(ExplicitDelayMs)}

StopOptions ==
    {None, Some(TRUE), Some(FALSE)}

TerminalNames ==
    {"wt", "Foo"}

LeafInputs ==
    {LaunchApp, Open, SendKeys, PowerShell} \cup {Terminal(t) : t \in TerminalNames}

FlatInputs ==
    { MultiAction(a, d, s) :
        a \in SeqsUpTo({LaunchApp, SendKeys}, MaxLen), d \in DelayOptions, s \in StopOptions }

MixedInputs ==
    { MultiAction(a, d, s) :
        a \in SeqsUpTo(LeafInputs, 2), d \in {None, Some(0)}, s \in StopOptions }

NestedInputs ==
    { MultiAction(pre \o <<MultiAction(inner, d[2], s2)>> \o post, d[1], s1) :
        pre \in SeqsUpTo({LaunchApp}, 1), post \in SeqsUpTo({LaunchApp}, 1),
        inner \in SeqsUpTo({LaunchApp}, MaxLen - 1),
        d \in {<<None, Some(0)>>, <<Some(0), None>>},
        s1 \in {None, Some(FALSE)}, s2 \in {None, Some(FALSE)} }

DeepInputs ==
    { MultiAction(<<MultiAction(<<MultiAction(inner, None, s3), LaunchApp>>, d2, s2),
                    LaunchApp>>, None, s1) :
        inner \in SeqsUpTo({LaunchApp}, 1), d2 \in {None, Some(0)},
        s1 \in StopOptions, s2 \in StopOptions, s3 \in StopOptions }

Inputs ==
    LeafInputs \cup FlatInputs \cup MixedInputs \cup NestedInputs \cup DeepInputs

RECURSIVE HasOpen(_)
HasOpen(config) ==
    \/ config.type = "Open"
    \/ \E i \in 1..Len(config.actions) : HasOpen(config.actions[i])

(***************************************************************************)
(* The state machine.                                                      *)
(***************************************************************************)
Init ==
    /\ input \in Inputs
    /\ windows \in (IF HasOpen(input) THEN BOOLEAN ELSE {TRUE})
    /\ phase = "start"
    /\ stack = <<>>
    /\ ret = NotReturned
    /\ clock = 0
    /\ log = <<>>

\* ActionRunner::execute_action_config called by the top-level caller on a
\* description that is not routed to the composite executor.
DispatchLeaf ==
    /\ phase = "start"
    /\ Route(input) # "MultiAction"
    /\ \E platform \in Platforms(input) :
         LET outcome == execute_action_config(input, platform, windows, PlatformCallMs)
         IN  /\ ret' = outcome.returned
             /\ clock' = clock + Elapsed(outcome.returned)
             /\ log' = log \o LeafEvents(input, <<>>, outcome, platform)
    /\ phase' = "done"
    /\ UNCHANGED <<input, windows, stack>>

\* The same call on a MultiAction: MultiActionExecutor::execute is entered.
DispatchMulti ==
    /\ phase = "start"
    /\ Route(input) = "MultiAction"
    /\ stack' = <<NewFrame(input, <<>>, clock)>>
    /\ log' = Append(log, DispatchEvent(input, <<>>))
    /\ phase' = "running"
    /\ UNCHANGED <<input, windows, ret, clock>>

\* One loop iteration whose sub-action is not a composite: the dispatch and
\* the match on what it returned.
ExecuteStep ==
    /\ phase = "running"
    /\ Top.pc = "dispatch"
    /\ LET action == Top.actions[Top.index + 1]
           path == Append(Top.path, Top.index)
       IN  /\ Route(action) # "MultiAction"
           /\ \E platform \in Platforms(action) :
                LET outcome == execute_action_config(action, platform, windows, PlatformCallMs)
                IN  /\ stack' = SetTop(StepReturned(Top, outcome.returned))
                    /\ clock' = clock + Elapsed(outcome.returned)
                    /\ log' = log \o LeafEvents(action, path, outcome, platform)
    /\ UNCHANGED <<input, windows, phase, ret>>

\* One loop iteration whose sub-action is a MultiAction: a new activation of
\* the composite executor on a fresh ActionRunner.
EnterNested ==
    /\ phase = "running"
    /\ Top.pc = "dispatch"
    /\ LET action == Top.actions[Top.index + 1]
           path == Append(Top.path, Top.index)
       IN  /\ Route(action) = "MultiAction"
           /\ stack' = Append(SetTop([Top EXCEPT !.pc = "await"]), NewFrame(action, path, clock))
           /\ log' = Append(log, DispatchEvent(action, path))
    /\ UNCHANGED <<input, windows, phase, ret, clock>>

\* The delay test holds: the task sleeps delay_ms, then the loop goes on.
InterStepSleep ==
    /\ phase = "running"
    /\ Top.pc = "delay"
    /\ DelayDue(Top.index, Len(Top.actions), Top.delay_ms)
    /\ stack' = SetTop(NextIteration(Top))
    /\ clock' = clock + Top.delay_ms
    /\ log' = log \o <<CheckEvent(Top.path, Top.index),
                       SleepEvent(Top.path, Top.index, Top.delay_ms)>>
    /\ UNCHANGED <<input, windows, phase, ret>>

\* The delay test fails: the loop goes on at once.
SkipSleep ==
    /\ phase = "running"
    /\ Top.pc = "delay"
    /\ ~DelayDue(Top.index, Len(Top.actions), Top.delay_ms)
    /\ stack' = SetTop(NextIteration(Top))
    /\ log' = Append(log, CheckEvent(Top.path, Top.index))
    /\ UNCHANGED <<input, windows, phase, ret, clock>>

\* The loop is left: the aggregate result is returned, to the parent
\* composite's match or to the top-level caller.
ReturnAggregate ==
    /\ phase = "running"
    /\ Top.pc = "aggregate"
    /\ LET returned == Ok(AggregateResult(Top, clock))
           rest == SubSeq(stack, 1, Len(stack) - 1)
       IN  /\ log' = Append(log, ReturnEvent(Top.path, returned, DefaultPlatform))
           /\ IF Len(stack) = 1
              THEN /\ ret' = returned
                   /\ phase' = "done"
                   /\ stack' = <<>>
              ELSE /\ stack' = [rest EXCEPT ![Len(rest)] = StepReturned(rest[Len(rest)], returned)]
                   /\ UNCHANGED <<ret, phase>>
    /\ UNCHANGED <<input, windows, clock>>

Next ==
    \/ DispatchLeaf
    \/ DispatchMulti
    \/ ExecuteStep
    \/ EnterNested
    \/ InterStepSleep
    \/ SkipSleep
    \/ ReturnAggregate

Spec ==
    Init /\ [][Next]_vars

(***************************************************************************)
(* Vocabulary of the properties: the description at a path of the input,   *)
(* and the events of the history that belong to it.                        *)
(***************************************************************************)
RECURSIVE SubConfig(_, _)
SubConfig(config, path) ==
    IF Len(path) = 0 THEN config
    ELSE SubConfig(config.actions[Head(path) + 1], Tail(path))

ConfigAt(path) ==
    SubConfig(input, path)

Parent(path) ==
    SubSeq(path, 1, Len(path) - 1)

Last(path) ==
    path[Len(path)]

Events(ev) ==
    {i \in 1..Len(log) : log[i].ev = ev}

Dispatches ==
    Events("dispatch")

ChildEvents(ev, path) ==
    {i \in Events(ev) : Len(log[i].path) = Len(path) + 1 /\ Parent(log[i].path) = path}

EventsAt(ev, path) ==
    {i \in Events(ev) : log[i].path = path}

CompositeDispatches ==
    {i \in Dispatches : ConfigAt(log[i].path).type = "MultiAction"}

Succeeded(returned) ==
    returned.tag = "Ok" /\ returned.result.success

StopsOnError(config) ==
    config.stop_on_error \in {None, Some(TRUE)}

OwnDelay(config) ==
    IF config.delay_between_ms = None THEN 100 ELSE config.delay_between_ms[1]

\* The sub-actions of the composite at path were dispatched in list order,
\* each once: the k-th dispatch is the dispatch of actions[k].
InListOrder(path) ==
    \A j \in ChildEvents("dispatch", path) :
        Last(log[j].path) = Cardinality({k \in ChildEvents("dispatch", path) : k < j})

\* No sub-action of the composite at path was dispatched after a failed one.
NothingAfterFailure(path) ==
    \A j \in ChildEvents("dispatch", path), r \in ChildEvents("return", path) :
        r < j => Succeeded(log[r].returned)

\* The number of sub-actions of the composite at path attempted so far.
Attempted(path) ==
    Cardinality(ChildEvents("dispatch", path))

SucceededSteps(path) ==
    Cardinality({r \in ChildEvents("return", path) : Succeeded(log[r].returned)})

\* C1: with stop_on_error true or absent, sub-actions are dispatched in list
\* order, nothing is dispatched after the first failed step, and the output
\* array of the returned result holds exactly the attempted steps: the loop
\* ran to the end of the list or stopped at the first failure
\* ([ok, fail, ..] of three: 2 attempted, success=false, 1/2).
C1_StopOnErrorHalts ==
    \A i \in CompositeDispatches :
        LET path == log[i].path
            config == ConfigAt(path)
        IN  StopsOnError(config) =>
              /\ InListOrder(path)
              /\ NothingAfterFailure(path)
              /\ \A r \in EventsAt("return", path) :
                    LET result == log[r].returned.result
                        failures == {c \in ChildEvents("return", path) :
                                        ~Succeeded(log[c].returned)}
                    IN  /\ log[r].returned.tag = "Ok"
                        /\ Len(result.output) = 1
                        /\ Len(result.output[1]) = Attempted(path)
                        /\ Cardinality(failures) <= 1
                        /\ IF failures = {}
                           THEN Attempted(path) = Len(config.actions)
                           ELSE \A c \in failures : Last(log[c].path) = Attempted(path) - 1
                        /\ (/\ Len(config.actions) = 3
                            /\ \E c \in failures : Last(log[c].path) = 1)
                           => /\ Attempted(path) = 2
                              /\ result.success = FALSE
                              /\ result.message.n = 1
                              /\ result.message.m = 2

C1_Witness ==
    /\ phase = "done"
    /\ input.type = "MultiAction"
    /\ input.stop_on_error = None
    /\ input.actions = <<LaunchApp, LaunchApp, LaunchApp>>
    /\ ret.tag = "Ok"
    /\ ~ret.result.success
    /\ ret.result.message.n = 1
    /\ ret.result.message.m = 2
    /\ Attempted(<<>>) = 2

\* C2: with stop_on_error=false every sub-action is attempted exactly once,
\* in list order, whatever the earlier outcomes ([ok, fail, ok]: 3 attempted,
\* 2/3, success=false).
C2_ContinueOnError ==
    \A i \in CompositeDispatches :
        LET path == log[i].path
            config == ConfigAt(path)
        IN  config.stop_on_error = Some(FALSE) =>
              /\ InListOrder(path)
              /\ \A r \in EventsAt("return", path) :
                    LET result == log[r].returned.result
                    IN  /\ Attempted(path) = Len(config.actions)
                        /\ \A k \in 0..(Len(config.actions) - 1) :
                              Cardinality(EventsAt("dispatch", Append(path, k))) = 1
                        /\ (/\ Len(config.actions) = 3
                            /\ SucceededSteps(path) = 2)
                           => /\ result.success = FALSE
                              /\ result.message.n = 2
                              /\ result.message.m = 3

C2_Witness ==
    /\ phase = "done"
    /\ input.type = "MultiAction"
    /\ input.stop_on_error = Some(FALSE)
    /\ input.actions = <<LaunchApp, LaunchApp, LaunchApp>>
    /\ \E c \in EventsAt("return", <<1>>) : ~Succeeded(log[c].returned)
    /\ \E c \in EventsAt("return", <<2>>) : Succeeded(log[c].returned)
    /\ ~ret.result.success
    /\ ret.result.message.n = 2
    /\ ret.result.message.m = 3

\* C3: the aggregate result of a MultiAction, under both policies: success
\* iff every attempted step succeeded; in the message N/M, M is the number of
\* attempted steps and N the number of them that succeeded; output is the
\* array of the M attempted child results, in the order of the attempts.
C3_AggregateResult ==
    \A i \in CompositeDispatches :
        LET path == log[i].path
        IN  \A r \in EventsAt("return", path) :
                LET result == log[r].returned.result
                IN  /\ log[r].returned.tag = "Ok"
                    /\ result.success
                         <=> (\A c \in ChildEvents("return", path) : Succeeded(log[c].returned))
                    /\ result.message.text = "Multi-action: steps successful"
                    /\ result.message.m = Attempted(path)
                    /\ result.message.n = SucceededSteps(path)
                    /\ Len(result.output) = 1
                    /\ Len(result.output[1]) = Attempted(path)
                    /\ \A c \in ChildEvents("return", path) :
                          LET k == Cardinality({d \in ChildEvents("return", path) : d <= c})
                          IN  /\ result.output[1][k].success = Succeeded(log[c].returned)
                              /\ log[c].returned.tag = "Ok"
                                    => result.output[1][k] = log[c].returned.result

C3_Witness ==
    /\ phase = "done"
    /\ input.type = "MultiAction"
    /\ input.stop_on_error = Some(FALSE)
    /\ Len(input.actions) = 3
    /\ Attempted(<<>>) = 3
    /\ SucceededSteps(<<>>) = 1
    /\ ~ret.result.success
    /\ ret.result.message.n = 1
    /\ ret.result.message.m = 3
    /\ Len(ret.result.output[1]) = 3

\* C4: a MultiAction with an empty actions list attempts no step, evaluates
\* no delay test and performs no sleep, and returns success=true, 0/0 and an
\* empty output array.
C4_EmptyComposite ==
    \A i \in CompositeDispatches :
        LET path == log[i].path
        IN  Len(ConfigAt(path).actions) = 0 =>
              /\ Attempted(path) = 0
              /\ EventsAt("check", path) = {}
              /\ EventsAt("sleep", path) = {}
              /\ Len(log) > i => log[i + 1].ev = "return" /\ log[i + 1].path = path
              /\ \A r \in EventsAt("return", path) :
                    LET result == log[r].returned.result
                    IN  /\ log[r].returned.tag = "Ok"
                        /\ result.success = TRUE
                        /\ result.message.n = 0
                        /\ result.message.m = 0
                        /\ result.output = Some(<<>>)
                        /\ result.execution_time_ms = 0

C4_Witness ==
    /\ phase = "done"
    /\ input.type = "MultiAction"
    /\ input.actions = <<>>
    /\ input.delay_between_ms = None
    /\ ret.tag = "Ok"
    /\ ret.result.success
    /\ ret.result.message.m = 0
    /\ clock = 0

\* C5: the inter-step sleep lasts delay_between_ms (100 when absent) and
\* happens only between two consecutive attempted steps: it directly follows
\* the return of a step and the next event of the composite is the dispatch
\* of the next step; a composite that returned after k >= 1 attempted steps
\* slept k-1 times if its delay is positive, and never if it is 0.
C5_SleepBetweenSteps ==
    \A i \in CompositeDispatches :
        LET path == log[i].path
            config == ConfigAt(path)
            sleeps == EventsAt("sleep", path)
        IN  /\ \A s \in sleeps :
                  /\ log[s].ms = OwnDelay(config)
                  /\ log[s].ms > 0
                  /\ log[s].index < Len(config.actions) - 1
                  /\ \E c \in EventsAt("return", Append(path, log[s].index)) : c < s
                  /\ Len(log) > s =>
                        /\ log[s + 1].ev = "dispatch"
                        /\ log[s + 1].path = Append(path, log[s].index + 1)
                  /\ \A t \in sleeps : t # s => log[t].index # log[s].index
            /\ \A r \in EventsAt("return", path) :
                  Cardinality(sleeps) =
                      IF OwnDelay(config) > 0 /\ Attempted(path) >= 1
                      THEN Attempted(path) - 1
                      ELSE 0

C5_Witness ==
    /\ phase = "done"
    /\ input.type = "MultiAction"
    /\ input.delay_between_ms = None
    /\ StopsOnError(input)
    /\ Len(input.actions) = 3
    /\ Attempted(<<>>) = 2
    /\ Cardinality(EventsAt("sleep", <<>>)) = 1
    /\ clock >= 100

Frames ==
    {stack[j] : j \in 1..Len(stack)}

\* C6: when the dispatch of a sub-action returns an error value, the
\* composite records at that position a synthesized result with
\* success=false and execution_time_ms=0, counts the step as attempted and
\* failed, applies its stop_on_error policy to it, and still returns a
\* result.
C6_DispatchErrorRecorded ==
    \A c \in Events("return") :
        (log[c].returned.tag = "Err" /\ Len(log[c].path) > 0) =>
            LET path == Parent(log[c].path)
                k == Last(log[c].path)
                config == ConfigAt(path)
                Synthesized(result) ==
                    /\ result.success = FALSE
                    /\ result.execution_time_ms = 0
                    /\ result.output = None
                    /\ result.error_code = None
                    /\ result.message.text = "Step error"
                    /\ result.message.n = k + 1
                    /\ result.message.arg = log[c].returned.error
            IN  /\ \A f \in Frames :
                      f.path = path =>
                          /\ Len(f.results) > k
                          /\ Synthesized(f.results[k + 1])
                          /\ f.total_success = FALSE
                /\ StopsOnError(config) =>
                      \A j \in ChildEvents("dispatch", path) : j < c
                /\ \A r \in EventsAt("return", path) :
                      LET result == log[r].returned.result
                      IN  /\ log[r].returned.tag = "Ok"
                          /\ result.success = FALSE
                          /\ Len(result.output) = 1
                          /\ Len(result.output[1]) > k
                          /\ Synthesized(result.output[1][k + 1])
                          /\ result.message.m = Attempted(path)
                          /\ result.message.n = SucceededSteps(path)
                          /\ result.message.n < result.message.m
                          /\ Attempted(path) =
                                IF StopsOnError(config) THEN k + 1 ELSE Len(config.actions)

C6_Witness ==
    /\ phase = "done"
    /\ input.type = "MultiAction"
    /\ input.stop_on_error = Some(FALSE)
    /\ input.actions = <<SendKeys, LaunchApp>>
    /\ ret.tag = "Ok"
    /\ ~ret.result.success
    /\ ret.result.output[1][1].message.text = "Step error"
    /\ ret.result.output[1][2].success
    /\ ret.result.message.n = 1
    /\ ret.result.message.m = 2

\* C7: a SendKeys or PowerShell description dispatched directly returns the
\* 'no executor found' error value: every registered executor was asked and
\* declined, no executor's execute ran, no platform primitive was invoked
\* and the dispatch was not repeated.
C7_NoExecutorFound ==
    (input.type \in {"SendKeys", "PowerShell"} /\ phase = "done") =>
        /\ ret.tag = "Err"
        /\ ret.error = "No executor found for action type"
        /\ Len(log) = 2
        /\ log[1].ev = "dispatch"
        /\ log[1].what = "none"
        /\ log[1].consulted = <<"LaunchApp", "Open", "Terminal">>
        /\ log[2].ev = "return"
        /\ log[2].returned = ret
        /\ Events("call") = {}
        /\ clock = 0
        /\ stack = <<>>

C7_Witness ==
    /\ phase = "done"
    /\ input = SendKeys
    /\ ret.tag = "Err"
    /\ Len(log) = 2

Dispatchable ==
    {"LaunchApp", "Open", "Terminal", "MultiAction"}

ConsultedInOrder(i) ==
    LET type == ConfigAt(log[i].path).type
    IN  log[i].consulted =
            CASE type = "LaunchApp" -> <<"LaunchApp">>
              [] type = "Open" -> <<"LaunchApp", "Open">>
              [] OTHER -> <<"LaunchApp", "Open", "Terminal">>

Accepting(config) ==
    {e \in Dispatchable : supports_action_type(e, config)}

PrimitivesOf(type) ==
    CASE type \in {"LaunchApp", "Terminal"} -> {"spawn", "try_wait"}
      [] type = "Open" -> {"ShellExecuteW", "ShellExecuteW notepad"}
      [] OTHER -> {}

\* C8 (as amended): dispatch is deterministic first-match: the executors are
\* consulted in registration order (LaunchApp, Open, Terminal) and at most
\* one executor's execute runs per dispatch, the first whose supports
\* predicate accepts the description: exactly one for a LaunchApp, Open,
\* Terminal or MultiAction description, none for SendKeys and PowerShell;
\* each supports predicate accepts its own variant only, and a MultiAction
\* is executed by the composite executor only.
C8_FirstMatchDispatch ==
    \A i \in Dispatches :
        LET config == ConfigAt(log[i].path)
        IN  /\ ConsultedInOrder(i)
            /\ Accepting(config) =
                  IF config.type \in Dispatchable THEN {config.type} ELSE {}
            /\ log[i].what =
                  IF config.type \in Dispatchable THEN config.type ELSE "none"
            /\ (log[i].what = "MultiAction") <=> (config.type = "MultiAction")
            /\ \A c \in EventsAt("call", log[i].path) :
                  log[c].what \in PrimitivesOf(config.type)

C8_Witness ==
    /\ phase = "done"
    /\ input.type = "MultiAction"
    /\ input.stop_on_error = Some(FALSE)
    /\ input.actions = <<Terminal("wt"), SendKeys>>
    /\ \E i \in EventsAt("dispatch", <<0>>) :
          log[i].what = "Terminal" /\ Len(log[i].consulted) = 3
    /\ \E i \in EventsAt("dispatch", <<1>>) : log[i].what = "none"
    /\ \E c \in EventsAt("call", <<0>>) : log[c].what = "spawn"

\* C8 as stated: exactly one executor's execute runs per dispatch.
C8_ExactlyOneExecutorRuns ==
    \A i \in Dispatches :
        LET config == ConfigAt(log[i].path)
        IN  /\ ConsultedInOrder(i)
            /\ Cardinality(Accepting(config)) <= 1
            /\ log[i].what \in Dispatchable
            /\ (log[i].what = "MultiAction") <=> (config.type = "MultiAction")

IsPrefix(p, q) ==
    Len(p) <= Len(q) /\ SubSeq(q, 1, Len(p)) = p

RECURSIVE LexLess(_, _)
LexLess(p, q) ==
    IF Len(p) = 0 THEN Len(q) > 0
    ELSE IF Len(q) = 0 THEN FALSE
    ELSE IF Head(p) # Head(q) THEN Head(p) < Head(q)
    ELSE LexLess(Tail(p), Tail(q))

\* C9: a sub-action that is itself a MultiAction runs through the dispatcher
\* recursively: everything it does lies between its dispatch and its return,
\* and the parent's next step starts after that return (dispatches happen in
\* depth-first, left-to-right order); it counts as exactly one step of its
\* parent, failed iff its own aggregate success is false; and its loop
\* follows its own delay_between_ms and stop_on_error, not the parent's.
C9_NestedComposite ==
    /\ \A i \in Dispatches, j \in Dispatches :
          i < j => LexLess(log[i].path, log[j].path)
    /\ \A i \in CompositeDispatches :
          LET path == log[i].path
              config == ConfigAt(path)
              parent == Parent(path)
              k == Last(path)
              returns == EventsAt("return", path)
              sleeps == EventsAt("sleep", path)
          IN  Len(path) > 0 =>
                /\ Cardinality(EventsAt("dispatch", path)) = 1
                /\ Cardinality(returns) <= 1
                /\ \A j \in 1..Len(log) :
                      (j # i /\ IsPrefix(path, log[j].path)) =>
                          /\ i < j
                          /\ \A r \in returns : j <= r
                /\ \A j \in 1..Len(log) :
                      (i < j /\ returns = {}) => IsPrefix(path, log[j].path)
                /\ \A j \in EventsAt("dispatch", Append(parent, k + 1)) :
                      \E r \in returns : r < j
                /\ InListOrder(path)
                /\ StopsOnError(config) => NothingAfterFailure(path)
                /\ \A t \in sleeps : log[t].ms = OwnDelay(config)
                /\ \A r \in returns :
                      LET result == log[r].returned.result
                          failed == ~Succeeded(log[r].returned)
                          stops == failed /\ StopsOnError(ConfigAt(parent))
                      IN  /\ Attempted(path) = Len(config.actions)
                                \/ /\ StopsOnError(config)
                                   /\ \E c \in EventsAt("return", Append(path, Attempted(path) - 1)) :
                                         ~Succeeded(log[c].returned)
                          /\ Cardinality(sleeps) =
                                IF OwnDelay(config) > 0 /\ Attempted(path) >= 1
                                THEN Attempted(path) - 1 ELSE 0
                          /\ failed <=> (\E c \in ChildEvents("return", path) :
                                            ~Succeeded(log[c].returned))
                          /\ stops => ChildEvents("dispatch", parent) \subseteq 1..r
                          /\ \A f \in Frames :
                                f.path = parent =>
                                    /\ Len(f.results) >= k + 1
                                    /\ f.results[k + 1] = result
                                    /\ failed => ~f.total_success
                          /\ \A pr \in EventsAt("return", parent) :
                                LET presult == log[pr].returned.result
                                IN  /\ Len(presult.output[1]) = Attempted(parent)
                                    /\ presult.message.m = Attempted(parent)
                                    /\ presult.output[1][k + 1] = result
                                    /\ presult.message.n = SucceededSteps(parent)
                                    /\ presult.success <=>
                                          (\A c \in ChildEvents("return", parent) :
                                              Succeeded(log[c].returned))
                                    /\ Attempted(parent) > k + 1
                                          \/ k + 1 = Len(ConfigAt(parent).actions)
                                          \/ stops

C9_Witness ==
    /\ phase = "done"
    /\ input.type = "MultiAction"
    /\ input.stop_on_error = None
    /\ input.delay_between_ms = Some(0)
    /\ Len(input.actions) = 3
    /\ input.actions[2].type = "MultiAction"
    /\ input.actions[2].stop_on_error = Some(FALSE)
    /\ input.actions[2].delay_between_ms = None
    /\ Len(input.actions[2].actions) = 2
    /\ \E c \in EventsAt("return", <<1, 0>>) : ~Succeeded(log[c].returned)
    /\ \E c \in EventsAt("return", <<1, 1>>) : Succeeded(log[c].returned)
    /\ Cardinality(EventsAt("sleep", <<1>>)) = 1
    /\ EventsAt("sleep", <<>>) = {}
    /\ Attempted(<<>>) = 2
    /\ ~ret.result.success
    /\ ret.result.message.n = 1
    /\ ret.result.message.m = 2

Unsupported(terminal) ==
    terminal \notin {"WindowsTerminal", "wt", "PowerShell", "pwsh", "Cmd", "cmd", "WSL", "wsl"}

SpawnFailure(platform) ==
    \/ platform.spawn \in {"spawn_failed", "wait_failed"}
    \/ platform.spawn = "exited" /\ platform.code # 0

\* The platform outcomes on which a leaf execution fails: the spawn fails,
\* the child has exited with a non-zero status, the status check fails, the
\* terminal name is not supported, the build is not for Windows, or the
\* shell returns an error code that the Notepad fallback does not make good.
FailureOutcome(config, platform) ==
    CASE config.type = "LaunchApp" -> SpawnFailure(platform)
      [] config.type = "Terminal" -> Unsupported(config.terminal) \/ SpawnFailure(platform)
      [] config.type = "Open" ->
            \/ ~windows
            \/ /\ platform.shell <= 32
               /\ ~(platform.shell = 2 /\ platform.file = "file" /\ platform.fallback > 32)
      [] OTHER -> FALSE

\* C10: every dispatch of a LaunchApp, Open or Terminal description returns
\* a result value, never an error value; on every failing platform outcome
\* the result carries success=false and a message.
C10_LeafFailuresAreResults ==
    \A r \in Events("return") :
        LET config == ConfigAt(log[r].path)
            returned == log[r].returned
        IN  config.type \in {"LaunchApp", "Open", "Terminal"} =>
              /\ returned.tag = "Ok"
              /\ returned.result.message.text # ""
              /\ FailureOutcome(config, log[r].platform) => ~returned.result.success

C10_Witness ==
    /\ phase = "done"
    /\ windows
    /\ input.type = "MultiAction"
    /\ input.stop_on_error = Some(FALSE)
    /\ input.actions = <<Open, Terminal("Foo")>>
    /\ \E r \in EventsAt("return", <<0>>) :
          /\ log[r].platform.shell = 32
          /\ log[r].returned.tag = "Ok"
          /\ log[r].returned.result.error_code = Some(32)
          /\ ~log[r].returned.result.success
    /\ \E r \in EventsAt("return", <<1>>) :
          /\ log[r].returned.tag = "Ok"
          /\ log[r].returned.result.message.text = "Unsupported terminal type"

(***************************************************************************)
(* Strings and paths.  A string is the sequence of its characters; a       *)
(* character that no operation looks at stands for any ordinary one.       *)
(* std::path is modelled by what it does on each build target: on Windows  *)
(* both slashes separate components and a drive letter followed by a colon *)
(* is a prefix; elsewhere only "/" separates and there is no prefix.       *)
(* Inputs never start with two separators (no UNC or verbatim prefix).     *)
(***************************************************************************)
MaxNameLen ==
    1

Letters ==
    {"C", "D", "V", "a", "h", "t", "w"}

InvalidUnicode ==
    "<invalid>"

ReplacementCharacter ==
    "<U+FFFD>"

is_separator(c, win) ==
    c = "/" \/ (win /\ c = "\\")

MAIN_SEPARATOR(win) ==
    IF win THEN "\\" ELSE "/"

\* Length of the prefix component: 2 for a Windows drive ("C:"), else 0.
prefix_len(path, win) ==
    IF win /\ Len(path) >= 2 /\ path[1] \in Letters /\ path[2] = ":" THEN 2 ELSE 0

has_root(path, win) ==
    /\ Len(path) > prefix_len(path, win)
    /\ is_separator(path[prefix_len(path, win) + 1], win)

is_absolute(path, win) ==
    IF win
    THEN prefix_len(path, win) > 0 /\ has_root(path, win)
    ELSE has_root(path, win)

\* PathBuf::push, on which Path::join rests.
join(self, path, win) ==
    IF is_absolute(path, win) \/ prefix_len(path, win) > 0
    THEN path
    ELSE IF has_root(path, win)
    THEN SubSeq(self, 1, prefix_len(self, win)) \o path
    ELSE IF \/ Len(self) = 0
            \/ is_separator(self[Len(self)], win)
            \/ (prefix_len(self, win) > 0 /\ prefix_len(self, win) = Len(self))
    THEN self \o path
    ELSE self \o <<MAIN_SEPARATOR(win)>> \o path

to_string_lossy(path) ==
    [i \in 1..Len(path) |-> IF path[i] = InvalidUnicode THEN ReplacementCharacter ELSE path[i]]

contains(string, c) ==
    \E i \in 1..Len(string) : string[i] = c

\* str::find from position `from` on: the first index holding c, 0 if none.
find(string, c, from) ==
    IF \E i \in from..Len(string) : string[i] = c
    THEN CHOOSE i \in from..Len(string) :
            string[i] = c /\ \A j \in from..(i - 1) : string[j] # c
    ELSE 0

\* The process environment: std::env::var(name) is Ok(Environment[name])
\* for the names in its domain and Err for every other name.
Environment ==
    [name \in {<<"V">>} |-> <<"C", ":", "\\", "w">>]

RECURSIVE expand_environment_variables(_)
expand_environment_variables(result) ==
    LET start == find(result, "%", 1)
        end == IF start = 0 THEN 0 ELSE find(result, "%", start + 1)
        var_name == SubSeq(result, start + 1, end - 1)
    IN  IF start = 0 \/ end = 0 THEN result
        ELSE IF var_name \in DOMAIN Environment
        THEN expand_environment_variables(
                SubSeq(result, 1, start - 1) \o Environment[var_name]
                    \o SubSeq(result, end + 1, Len(result)))
        ELSE result

(***************************************************************************)
(* One execution of OpenActionExecutor::execute in detail.  Its locals     *)
(* live in a frame; `kind` is what the file system holds at the resolved   *)
(* path ("missing", "file" or "dir"), `result` and `fallback_result` are   *)
(* the values of the two ShellExecuteW calls (-1 before the call).         *)
(***************************************************************************)
OpenTarget(target, verb) ==
    [type |-> "Open", target |-> target, verb |-> verb]

OpenFrame(expanded_target, verb_str) ==
    [expanded_target |-> expanded_target, verb_str |-> verb_str,
     absolute_target |-> <<>>, kind |-> "", final_target |-> <<>>,
     final_verb |-> "", quoted_target |-> <<>>, result |-> -1,
     fallback_result |-> -1]

absolute_target_concatenated(expanded_target, current_dir, win) ==
    IF Len(current_dir) > 0
    THEN current_dir[1] \o <<MAIN_SEPARATOR(win)>> \o expanded_target
    ELSE expanded_target

\* Lines 206-225; current_dir is Some(d) when std::env::current_dir()
\* answers Ok(d) and None when it answers Err.
absolute_target(expanded_target, current_dir, win) ==
    IF is_absolute(expanded_target, win)
    THEN expanded_target
    ELSE IF Len(current_dir) > 0
    THEN to_string_lossy(join(current_dir[1], expanded_target, win))
    ELSE expanded_target

final_verb_as_requested(kind, verb_str) ==
    verb_str

\* Lines 234-247.
final_verb(kind, verb_str) ==
    IF kind = "dir" THEN "explore" ELSE verb_str

quoted_target_never(final_target) ==
    final_target

\* Lines 253-257.
quoted_target(final_target) ==
    IF contains(final_target, " ") \/ contains(final_target, "(")
          \/ contains(final_target, ")")
    THEN <<"\"">> \o final_target \o <<"\"">>
    ELSE final_target

\* One call of a platform primitive, with its arguments and its answer.
PlatformCall(call, lpOperation, lpFile, lpParameters, status) ==
    [call |-> call, lpOperation |-> lpOperation, lpFile |-> lpFile,
     lpParameters |-> lpParameters, status |-> status]

FallbackDue_for_missing(frame) ==
    frame.result = ShellNoHandler /\ frame.kind \in {"file", "missing"}

FallbackDue_for_directories(frame) ==
    frame.result = ShellNoHandler /\ frame.kind \in {"file", "dir"}

\* Lines 297-299.
FallbackDue(frame) ==
    frame.result = ShellNoHandler /\ frame.kind = "file"

OpenResult_fallback_code(config, frame, execution_time) ==
    IF frame.result > ShellSuccessThreshold
    THEN ActionResult(TRUE, Message("Opened successfully", config.target, 0, 0),
                      execution_time, None, None)
    ELSE IF frame.result = ShellNoHandler
    THEN IF frame.kind = "file"
         THEN IF frame.fallback_result > ShellSuccessThreshold
              THEN ActionResult(TRUE, Message("Opened with Notepad", config.target, 0, 0),
                                execution_time, None, None)
              ELSE ActionResult(FALSE,
                                Message("No default program and Notepad fallback failed",
                                        config.target, 0, 0),
                                execution_time, None, Some(frame.fallback_result))
         ELSE ActionResult(FALSE, Message("File does not exist", config.target, 0, 0),
                           execution_time, None, Some(frame.result))
    ELSE ActionResult(FALSE, Message("System error", config.target, frame.result, 0),
                      execution_time, None, Some(frame.result))

\* Lines 284-363: the result built from the status values.
OpenResult(config, frame, execution_time) ==
    IF frame.result > ShellSuccessThreshold
    THEN ActionResult(TRUE, Message("Opened successfully", config.target, 0, 0),
                      execution_time, None, None)
    ELSE IF frame.result = ShellNoHandler
    THEN IF frame.kind = "file"
         THEN IF frame.fallback_result > ShellSuccessThreshold
              THEN ActionResult(TRUE, Message("Opened with Notepad", config.target, 0, 0),
                                execution_time, None, None)
              ELSE ActionResult(FALSE,
                                Message("No default program and Notepad fallback failed",
                                        config.target, 0, 0),
                                execution_time, None, Some(frame.result))
         ELSE ActionResult(FALSE, Message("File does not exist", config.target, 0, 0),
                           execution_time, None, Some(frame.result))
    ELSE ActionResult(FALSE, Message("System error", config.target, frame.result, 0),
                      execution_time, None, Some(frame.result))

(***************************************************************************)
(* DragDropService::create_open_config and create_launch_app_config        *)
(* (drag_drop.rs).  A DroppedFile is kept as its path and its file type; a *)
(* generated config as the entries the path goes to (the workdir entry,    *)
(* derived from the path, is left out).  A file extension is one character *)
(* of the model: the one after a final ".".                                *)
(***************************************************************************)
DroppedFile(path, file_type) ==
    [path |-> path, file_type |-> file_type]

\* Lines 506-517 and 576-587 of drag_drop.rs, the same code twice.
absolute_path(path, current_dir, win) ==
    IF is_absolute(path, win)
    THEN Ok(path)
    ELSE IF Len(current_dir) = 0
    THEN Err("Failed to get current directory")
    ELSE Ok(to_string_lossy(join(current_dir[1], path, win)))

create_open_config(file, current_dir, win) ==
    LET absolute == absolute_path(file.path, current_dir, win)
    IN  IF absolute.tag = "Err" THEN absolute
        ELSE Ok([target |-> absolute.result, verb |-> "open"])

extension(path) ==
    IF /\ Len(path) >= 3
       /\ path[Len(path) - 1] = "."
       /\ path[Len(path) - 2] \notin {"/", "\\"}
    THEN path[Len(path)]
    ELSE ""

to_lowercase(string) ==
    CASE string = "PY" -> "py"
      [] string = "PS1" -> "ps1"
      [] string = "JS" -> "js"
      [] string = "Ctrl" -> "ctrl"
      [] string = "Alt" -> "alt"
      [] string = "Hyper" -> "hyper"
      [] string = "Q" -> "q"
      [] string = "F12" -> "f12"
      [] OTHER -> string

create_launch_app_config(file, current_dir, win) ==
    LET absolute == absolute_path(file.path, current_dir, win)
        ext == to_lowercase(extension(absolute.result))
    IN  IF absolute.tag = "Err" THEN absolute
        ELSE IF file.file_type = "Script" /\ ext = "ps1"
        THEN Ok([path |-> <<"powershell.exe">>,
                 args |-> Some(<<<<"-ExecutionPolicy">>, <<"Bypass">>, <<"-File">>,
                                 absolute.result>>)])
        ELSE IF file.file_type = "Script" /\ ext = "py"
        THEN Ok([path |-> <<"python">>, args |-> Some(<<absolute.result>>)])
        ELSE IF file.file_type = "Script" /\ ext = "js"
        THEN Ok([path |-> <<"node">>, args |-> Some(<<absolute.result>>)])
        ELSE Ok([path |-> absolute.result, args |-> None])

(***************************************************************************)
(* The command TerminalActionExecutor::execute builds before it spawns.    *)
(* A Terminal description carries, besides the terminal name, the optional *)
(* profile, workdir and command; the argument list is a sequence of        *)
(* strings, a fixed flag being a one-token string.                         *)
(***************************************************************************)
TerminalConfig(terminal, profile, workdir, command) ==
    [type |-> "Terminal", terminal |-> terminal, actions |-> <<>>,
     delay_between_ms |-> None, stop_on_error |-> None,
     profile |-> profile, workdir |-> workdir, command |-> command]

Command(program, args, current_dir) ==
    [program |-> program, args |-> args, current_dir |-> current_dir]

starts_with(string, prefix) ==
    /\ Len(string) >= Len(prefix)
    /\ SubSeq(string, 1, Len(prefix)) = prefix

\* str::replace: every non-overlapping occurrence of `from`, left to right.
RECURSIVE replace(_, _, _)
replace(string, from, to) ==
    IF string = <<>> THEN <<>>
    ELSE IF starts_with(string, from)
    THEN to \o replace(SubSeq(string, Len(from) + 1, Len(string)), from, to)
    ELSE <<Head(string)>> \o replace(Tail(string), from, to)

\* Lines 474-478.
wsl_path(expanded_workdir) ==
    IF starts_with(expanded_workdir, <<"C", ":">>)
    THEN replace(replace(expanded_workdir, <<"C", ":">>, <<"/", "m", "n", "t", "/", "c">>),
                 <<"\\">>, <<"/">>)
    ELSE expanded_workdir

\* The arguments an optional field contributes: none when it is absent.
WithOption(option, flags) ==
    IF option = None THEN <<>> ELSE flags

\* Lines 398-502: None for a terminal value no arm of the match takes.
TerminalCommand(config) ==
    LET terminal == config.terminal
        profile == config.profile
        workdir == config.workdir
        command == config.command
        expanded_workdir == expand_environment_variables(workdir[1])
        cmd_str == command[1]
    IN  CASE terminal \in {"WindowsTerminal", "wt"} ->
                Some(Command("wt",
                             WithOption(profile, <<<<"-p">>, profile[1]>>)
                             \o WithOption(workdir, <<<<"-d">>, expanded_workdir>>)
                             \o WithOption(command, <<<<"--">>, <<"powershell">>, <<"-NoExit">>,
                                                      <<"-Command">>, cmd_str>>),
                             None))
          [] terminal \in {"PowerShell", "pwsh"} ->
                Some(Command("powershell",
                             <<<<"-NoExit">>>>
                             \o WithOption(command, <<<<"-Command">>, cmd_str>>),
                             WithOption(workdir, Some(expanded_workdir))))
          [] terminal \in {"Cmd", "cmd"} ->
                Some(Command("cmd",
                             <<<<"/K">>>>
                             \o WithOption(command, <<<<"/C">>, cmd_str \o <<" & pause">>>>),
                             WithOption(workdir, Some(expanded_workdir))))
          [] terminal \in {"WSL", "wsl"} ->
                Some(Command("wsl",
                             WithOption(profile, <<<<"-d">>, profile[1]>>)
                             \o WithOption(workdir, <<<<"--cd">>, wsl_path(expanded_workdir)>>)
                             \o (IF command # None
                                 THEN <<<<"--exec">>, <<"bash">>, <<"-c">>,
                                        cmd_str \o <<"; exec bash">>>>
                                 ELSE <<<<"--exec">>, <<"bash">>>>),
                             None))
          [] OTHER -> None

(***************************************************************************)
(* Inputs of a single executor or builder call.                            *)
(***************************************************************************)
NameChars ==
    {"a", " ", "(", ")", "\t"}

Names ==
    { <<"a">> \o rest : rest \in SeqsUpTo(NameChars, MaxNameLen) }

\* An absolute Windows path, a plain relative name, a drive-relative and a
\* root-relative Windows path, an absolute Unix path, a URL, and a path
\* that starts with an environment variable.
PathPrefixes ==
    { <<"C", ":", "\\">>, <<>>, <<"D", ":">>, <<"\\">>, <<"/">>,
      <<"h", "t", ":", "/", "/">>, <<"%", "V", "%", "\\">> }

Targets ==
    { prefix \o name : prefix \in PathPrefixes, name \in Names }

ScriptSuffixes ==
    { <<".", "ps1">>, <<".", "PY">>, <<".", "js">>, <<".", "sh">> }

Verbs ==
    {None, Some("edit")}

CurrentDirs(win) ==
    {None} \cup
    (IF win
     THEN {Some(<<"C", ":", "\\", "w">>), Some(<<"D", ":", "\\">>),
           Some(<<"C", ":", "\\", InvalidUnicode>>)}
     ELSE {Some(<<"/", "w">>), Some(<<"/">>), Some(<<"/", InvalidUnicode>>)})

AllTerminalNames ==
    {"WindowsTerminal", "wt", "PowerShell", "pwsh", "Cmd", "cmd", "WSL", "wsl",
     "Foo", "", "WT", "bash", "windowsterminal", "powershell", "CMD", "Wsl"}

\* Working directories: drive-letter paths on two drives and with a lower-case
\* drive letter, a path that reaches a drive letter through a variable, a
\* drive-letter path that holds "C:" twice, and a Unix path.
Workdirs ==
    {None, Some(<<"C", ":", "\\", "w">>), Some(<<"D", ":", "\\", "w">>),
     Some(<<"c", ":", "\\", "w">>), Some(<<"%", "V", "%", "\\", "a">>),
     Some(<<"C", ":", "\\", "C", ":">>), Some(<<"/", "w">>)}

Profiles ==
    {None, Some(<<"p">>)}

Commands ==
    {None, Some(<<"l", "s">>)}

TerminalConfigs ==
    { TerminalConfig(t, p, w, c) :
        t \in AllTerminalNames, p \in Profiles, w \in Workdirs, c \in Commands }

ExitCodes ==
    {0, 1, 2, -1}

LeafSpawnPlatforms ==
    { [DefaultPlatform EXCEPT !.spawn = o] :
        o \in {"spawn_failed", "running", "wait_failed", "signaled"} }
    \cup { [DefaultPlatform EXCEPT !.spawn = "exited", !.code = c] : c \in ExitCodes }

ShellExecuteResults ==
    {0, ShellNoHandler, 5, 31, ShellSuccessThreshold, ShellSuccessThreshold + 1}

FallbackResults ==
    {0, ShellNoHandler, ShellSuccessThreshold, ShellSuccessThreshold + 1}

NoFile ==
    DroppedFile(<<>>, "Unknown")

NoConfig ==
    OpenTarget(<<>>, None)

ExecutorInput(op, config, file, current_dir) ==
    [op |-> op, config |-> config, file |-> file, current_dir |-> current_dir]

ExecutorInputs(win) ==
    { ExecutorInput("Open", OpenTarget(t, v), NoFile, d) :
        t \in Targets, v \in Verbs, d \in CurrentDirs(win) }
    \cup { ExecutorInput("create_open_config", NoConfig, DroppedFile(t, "Document"), d) :
            t \in Targets, d \in CurrentDirs(win) }
    \cup { ExecutorInput("create_launch_app_config", NoConfig,
                         DroppedFile(t, "Executable"), d) :
            t \in Targets, d \in CurrentDirs(win) }
    \cup { ExecutorInput("create_launch_app_config", NoConfig,
                         DroppedFile(t \o x, "Script"), d) :
            t \in Targets, x \in ScriptSuffixes, d \in CurrentDirs(win) }
    \cup (IF win
          THEN { ExecutorInput(c.type, c, NoFile, None) :
                    c \in {LaunchApp} \cup TerminalConfigs }
          ELSE {})

(***************************************************************************)
(* The single-call state machine: `input` is the call (its operation, its  *)
(* argument and the process's current directory), `stack` holds the frame  *)
(* of a running Open execution, `phase` is the position in the call, `log` *)
(* the platform primitives invoked so far and `ret` the value returned.    *)
(***************************************************************************)
ExecutorInit ==
    /\ windows \in BOOLEAN
    /\ input \in ExecutorInputs(windows)
    /\ phase = "start"
    /\ stack = <<>>
    /\ ret = NotReturned
    /\ clock = 0
    /\ log = <<>>

\* Lines 198-201: the target is expanded and the verb defaulted.
OpenExpand ==
    /\ input.op = "Open"
    /\ phase = "start"
    /\ windows
    /\ stack' = <<OpenFrame(expand_environment_variables(input.config.target),
                            unwrap_or(input.config.verb, "open"))>>
    /\ phase' = "expanded"
    /\ UNCHANGED <<input, windows, ret, clock, log>>

\* Lines 366-376: the build for another target than Windows.
OpenUnsupported ==
    /\ input.op = "Open"
    /\ phase = "start"
    /\ ~windows
    /\ ret' = Ok(ActionResult(FALSE,
                              Message("Open action is only supported on Windows", "", 0, 0),
                              clock, None, None))
    /\ phase' = "done"
    /\ UNCHANGED <<input, windows, stack, clock, log>>

\* Lines 206-225.
OpenNormalize ==
    /\ input.op = "Open"
    /\ phase = "expanded"
    /\ stack' = SetTop([Top EXCEPT !.absolute_target =
                            absolute_target(Top.expanded_target, input.current_dir, windows)])
    /\ phase' = "normalized"
    /\ UNCHANGED <<input, windows, ret, clock, log>>

\* Lines 233-247: the file system is asked what is at the resolved path.
OpenClassify ==
    /\ input.op = "Open"
    /\ phase = "normalized"
    /\ \E kind \in FileKinds :
          stack' = SetTop([Top EXCEPT !.kind = kind,
                                      !.final_target = Top.absolute_target,
                                      !.final_verb = final_verb(kind, Top.verb_str)])
    /\ phase' = "classified"
    /\ UNCHANGED <<input, windows, ret, clock, log>>

\* Lines 253-257.
OpenQuote ==
    /\ input.op = "Open"
    /\ phase = "classified"
    /\ stack' = SetTop([Top EXCEPT !.quoted_target = quoted_target(Top.final_target)])
    /\ phase' = "quoted"
    /\ UNCHANGED <<input, windows, ret, clock, log>>

\* Lines 261-282: the primary ShellExecuteW call.
OpenShellExecute ==
    /\ input.op = "Open"
    /\ phase = "quoted"
    /\ \E result \in ShellExecuteResults :
          /\ stack' = SetTop([Top EXCEPT !.result = result])
          /\ log' = Append(log, PlatformCall("ShellExecuteW", Some(Top.final_verb),
                                             Top.quoted_target, None, result))
    /\ clock' = clock + PlatformCallMs
    /\ phase' = "executed"
    /\ UNCHANGED <<input, windows, ret>>

\* Lines 297-322: the retry with Notepad.
OpenFallback ==
    /\ input.op = "Open"
    /\ phase = "executed"
    /\ FallbackDue(Top)
    /\ \E fallback_result \in FallbackResults :
          /\ stack' = SetTop([Top EXCEPT !.fallback_result = fallback_result])
          /\ log' = Append(log, PlatformCall("ShellExecuteW", None, <<"notepad">>,
                                             Some(Top.final_target), fallback_result))
    /\ clock' = clock + PlatformCallMs
    /\ phase' = "fellback"
    /\ UNCHANGED <<input, windows, ret>>

\* Lines 284-363: the result is built and returned.
OpenReturn ==
    /\ input.op = "Open"
    /\ \/ phase = "executed" /\ ~FallbackDue(Top)
       \/ phase = "fellback"
    /\ ret' = Ok(OpenResult(input.config, Top, clock))
    /\ phase' = "done"
    /\ UNCHANGED <<input, windows, stack, clock, log>>

SpawnCalls(calls) ==
    [i \in 1..Len(calls) |-> PlatformCall(calls[i], None, <<>>, None, 0)]

\* The calls of a Terminal execution: the spawn carries the built command.
TerminalCalls(cmd, calls) ==
    [i \in 1..Len(calls) |->
        PlatformCall(calls[i], None, <<>>, IF calls[i] = "spawn" THEN cmd ELSE None, 0)]

\* LaunchAppActionExecutor::execute, called on a LaunchApp description.
LaunchAppExecute ==
    /\ input.op = "LaunchApp"
    /\ phase = "start"
    /\ \E platform \in LeafSpawnPlatforms :
          LET outcome == LaunchAppActionExecutor_execute(input.config, platform, PlatformCallMs)
          IN  /\ ret' = outcome.returned
              /\ log' = SpawnCalls(outcome.calls)
              /\ stack' = <<platform>>
              /\ clock' = clock + Elapsed(outcome.returned)
    /\ phase' = "done"
    /\ UNCHANGED <<input, windows>>

\* TerminalActionExecutor::execute, called on a Terminal description.
TerminalExecute ==
    /\ input.op = "Terminal"
    /\ phase = "start"
    /\ \E platform \in LeafSpawnPlatforms :
          LET outcome == TerminalActionExecutor_execute(input.config, platform, PlatformCallMs)
          IN  /\ ret' = outcome.returned
              /\ log' = TerminalCalls(TerminalCommand(input.config), outcome.calls)
              /\ stack' = <<platform>>
              /\ clock' = clock + Elapsed(outcome.returned)
    /\ phase' = "done"
    /\ UNCHANGED <<input, windows>>

CreateOpenConfig ==
    /\ input.op = "create_open_config"
    /\ phase = "start"
    /\ ret' = create_open_config(input.file, input.current_dir, windows)
    /\ phase' = "done"
    /\ UNCHANGED <<input, windows, stack, clock, log>>

CreateLaunchAppConfig ==
    /\ input.op = "create_launch_app_config"
    /\ phase = "start"
    /\ ret' = create_launch_app_config(input.file, input.current_dir, windows)
    /\ phase' = "done"
    /\ UNCHANGED <<input, windows, stack, clock, log>>

ExecutorNext ==
    \/ OpenExpand
    \/ OpenUnsupported
    \/ OpenNormalize
    \/ OpenClassify
    \/ OpenQuote
    \/ OpenShellExecute
    \/ OpenFallback
    \/ OpenReturn
    \/ LaunchAppExecute
    \/ TerminalExecute
    \/ CreateOpenConfig
    \/ CreateLaunchAppConfig

ExecutorSpec ==
    ExecutorInit /\ [][ExecutorNext]_vars

(***************************************************************************)
(* Properties of a single executor or builder call (ExecutorSpec).         *)
(***************************************************************************)
Calls(call) ==
    {i \in 1..Len(log) : log[i].call = call}

SpawnExecuted ==
    phase = "done" /\ input.op \in {"LaunchApp", "Terminal"}

\* C11: LaunchApp and Terminal spawn at most one child and poll a spawned
\* child exactly once with the non-blocking try_wait (never wait); the
\* result is success iff the spawn succeeded and the child is still running
\* or has exited with status 0; an exit with a non-zero status gives
\* success=false with error_code the exit code; a spawn failure gives
\* success=false with no error_code.
C11_SpawnPolledOnce ==
    SpawnExecuted =>
        LET platform == stack[1]
            result == ret.result
            attempted == input.op = "LaunchApp" \/ TerminalProgram(input.config.terminal) # ""
            spawned == attempted /\ platform.spawn # "spawn_failed"
        IN  /\ ret.tag = "Ok"
            /\ Cardinality(Calls("spawn")) = (IF attempted THEN 1 ELSE 0)
            /\ Cardinality(Calls("try_wait")) = (IF spawned THEN 1 ELSE 0)
            /\ \A i \in 1..Len(log) : log[i].call \in {"spawn", "try_wait"}
            /\ \A i \in Calls("spawn"), j \in Calls("try_wait") : i < j
            /\ result.success <=>
                  /\ spawned
                  /\ \/ platform.spawn = "running"
                     \/ platform.spawn = "exited" /\ platform.code = 0
            /\ (spawned /\ platform.spawn = "exited" /\ platform.code # 0) =>
                  ~result.success /\ result.error_code = Some(platform.code)
            /\ (attempted /\ platform.spawn = "spawn_failed") =>
                  ~result.success /\ result.error_code = None

C11_Witness ==
    /\ SpawnExecuted
    /\ input.config.terminal = "pwsh"
    /\ stack[1].spawn = "exited"
    /\ stack[1].code = 2
    /\ Len(log) = 2
    /\ ~ret.result.success
    /\ ret.result.error_code = Some(2)

OpenNormalized ==
    /\ input.op = "Open"
    /\ phase \in {"normalized", "classified", "quoted", "executed", "fellback", "done"}
    /\ windows

BuilderReturned ==
    phase = "done" /\ input.op \in {"create_open_config", "create_launch_app_config"}

\* The entry of a generated config that holds the normalized path: target
\* of an Open config, path of a LaunchApp config, or the last argument when
\* a script is handed to its interpreter.
ConfigPath(config) ==
    IF input.op = "create_open_config" THEN config.target
    ELSE IF config.args = None THEN config.path
    ELSE config.args[1][Len(config.args[1])]

\* C12: normalization leaves an absolute path exactly unchanged, whatever
\* the current directory is (or whether it can be read at all): the Open
\* executor's absolute_target is the expanded target itself, and the
\* drag-and-drop builders put the dropped path itself into the config.
C12_AbsolutePathUnchanged ==
    /\ (OpenNormalized /\ is_absolute(Top.expanded_target, windows)) =>
          /\ Top.absolute_target = Top.expanded_target
          /\ ~contains(input.config.target, "%") =>
                Top.absolute_target = input.config.target
          /\ phase # "normalized" => Top.final_target = Top.expanded_target
    /\ (BuilderReturned /\ is_absolute(input.file.path, windows)) =>
          /\ ret.tag = "Ok"
          /\ ConfigPath(ret.result) = input.file.path

C12_Witness ==
    /\ OpenNormalized
    /\ phase = "done"
    /\ input.config.target = <<"C", ":", "\\", "a", " ">>
    /\ input.current_dir = Some(<<"D", ":", "\\">>)
    /\ Top.absolute_target = <<"C", ":", "\\", "a", " ">>
    /\ Top.final_target = <<"C", ":", "\\", "a", " ">>

\* C13: for every non-absolute target t and current directory d,
\* normalization yields join(d, t) and the result is an absolute path, in
\* the Open executor and in the drag-and-drop builders.
C13_RelativePathJoined ==
    /\ (OpenNormalized /\ ~is_absolute(Top.expanded_target, windows)
           /\ input.current_dir # None) =>
          /\ Top.absolute_target = join(input.current_dir[1], Top.expanded_target, windows)
          /\ is_absolute(Top.absolute_target, windows)
    /\ (BuilderReturned /\ ~is_absolute(input.file.path, windows)
           /\ input.current_dir # None) =>
          /\ ret.tag = "Ok"
          /\ ConfigPath(ret.result) = join(input.current_dir[1], input.file.path, windows)
          /\ is_absolute(ConfigPath(ret.result), windows)

\* The part of C13 that holds: a non-absolute target is joined onto the
\* current directory (and converted lossily to a string).
C13_JoinedOntoCurrentDir ==
    /\ (OpenNormalized /\ ~is_absolute(Top.expanded_target, windows)
           /\ input.current_dir # None) =>
          Top.absolute_target =
              to_string_lossy(join(input.current_dir[1], Top.expanded_target, windows))
    /\ (BuilderReturned /\ ~is_absolute(input.file.path, windows)
           /\ input.current_dir # None) =>
          /\ ret.tag = "Ok"
          /\ ConfigPath(ret.result) =
                to_string_lossy(join(input.current_dir[1], input.file.path, windows))

\* A drive-relative target on Windows: the normalized result is the target
\* itself, which is not absolute.
C13_Witness ==
    /\ OpenNormalized
    /\ input.config.target = <<"D", ":", "a">>
    /\ input.current_dir = Some(<<"C", ":", "\\", "w">>)
    /\ Top.absolute_target = <<"D", ":", "a">>
    /\ ~is_absolute(Top.absolute_target, windows)

\* The primary ShellExecuteW calls of an Open execution (the fallback call
\* is the one that passes parameters).
PrimaryCalls ==
    {i \in Calls("ShellExecuteW") : log[i].lpParameters = None}

FallbackCalls ==
    {i \in Calls("ShellExecuteW") : log[i].lpParameters # None}

IsUrl(string) ==
    /\ Len(string) > 5
    /\ SubSeq(string, 1, 5) = <<"h", "t", ":", "/", "/">>
    /\ \A i \in 6..Len(string) : string[i] \in Letters

\* C14: an Open action whose (expanded) target is a URL hands that URL
\* itself to the shell primitive, not a file system path derived from it.
C14_UrlHandedToShell ==
    (input.op = "Open" /\ windows /\ IsUrl(expand_environment_variables(input.config.target))) =>
        \A i \in PrimaryCalls :
            log[i].lpFile = expand_environment_variables(input.config.target)

\* The URL is joined onto the current directory as if it were a relative
\* file name, and the joined path is what the shell is asked to open.
C14_Witness ==
    /\ input.op = "Open"
    /\ windows
    /\ input.config.target = <<"h", "t", ":", "/", "/", "a">>
    /\ input.current_dir = Some(<<"C", ":", "\\", "w">>)
    /\ PrimaryCalls = {1}
    /\ log[1].lpFile = <<"C", ":", "\\", "w", "\\", "h", "t", ":", "/", "/", "a">>

OpenShellCalled ==
    /\ input.op = "Open"
    /\ phase \in {"executed", "fellback", "done"}
    /\ windows

RequestedVerb ==
    IF input.config.verb = None THEN "open" ELSE input.config.verb[1]

\* C15: the primary shell call is made once; its verb is "explore" when the
\* normalized target exists and is a directory, whatever verb was
\* requested, and the requested verb ("open" when absent) when the target
\* is an existing non-directory or does not exist.
C15_DirectoryVerb ==
    OpenShellCalled =>
        /\ Cardinality(PrimaryCalls) = 1
        /\ \A i \in PrimaryCalls :
              /\ Top.kind = "dir" => log[i].lpOperation = Some("explore")
              /\ Top.kind \in {"file", "missing"} => log[i].lpOperation = Some(RequestedVerb)

C15_Witness ==
    /\ OpenShellCalled
    /\ input.config.verb = Some("edit")
    /\ Top.kind = "dir"
    /\ log[1].lpOperation = Some("explore")

Whitespace ==
    {" ", "\t"}

Quoted(string) ==
    <<"\"">> \o string \o <<"\"">>

\* C16 as stated: the target handed to the shell primitive is the resolved
\* path in double quotes if that path contains any whitespace character or
\* a parenthesis, and the resolved path itself otherwise.
C16_QuotedOnWhitespace ==
    OpenShellCalled =>
        \A i \in PrimaryCalls :
            log[i].lpFile =
                IF \E k \in 1..Len(Top.final_target) :
                      Top.final_target[k] \in Whitespace \cup {"(", ")"}
                THEN Quoted(Top.final_target)
                ELSE Top.final_target

\* C16, amended: the target handed to the shell primitive is the resolved
\* path in double quotes if that path contains a space character or a
\* parenthesis, and the resolved path itself otherwise (a tab or another
\* whitespace character alone does not make it quoted).
C16_QuotedOnSpaceOrParenthesis ==
    OpenShellCalled =>
        \A i \in PrimaryCalls :
            log[i].lpFile =
                IF \E k \in 1..Len(Top.final_target) :
                      Top.final_target[k] \in {" ", "(", ")"}
                THEN Quoted(Top.final_target)
                ELSE Top.final_target

C16_Witness ==
    /\ OpenShellCalled
    /\ Top.final_target = <<"C", ":", "\\", "a", "(">>
    /\ log[1].lpFile = <<"\"", "C", ":", "\\", "a", "(", "\"">>

OpenReturned ==
    input.op = "Open" /\ phase = "done" /\ windows

\* C17: with s the status of the primary shell call, s > 32 gives
\* success=true with no error_code (and nothing is retried); s <= 32 is a
\* failure of the primary call: unless a fallback makes it good the result
\* is a failure, and every failure result carries error_code = s, also when
\* the fallback was tried and failed with another status.
C17_ShellStatus ==
    OpenReturned =>
        \A i \in PrimaryCalls :
            LET s == log[i].status
                result == ret.result
            IN  /\ ret.tag = "Ok"
                /\ s > 32 =>
                      result.success /\ result.error_code = None /\ FallbackCalls = {}
                /\ (s <= 32 /\ FallbackCalls = {}) => ~result.success
                /\ (s <= 32 /\ ~result.success) => result.error_code = Some(s)
                /\ result.success => result.error_code = None

C17_Witness ==
    /\ OpenReturned
    /\ log[1].status = 2
    /\ Len(log) = 2
    /\ log[2].status = 0
    /\ ~ret.result.success
    /\ ret.result.error_code = Some(2)

\* C18: the fallback application is invoked at most once per Open
\* execution, and only after the primary call returned status 2 for a
\* target that exists and is a regular file (never after a primary success
\* or another failure status, never for a directory or a missing path); in
\* that case it is invoked, and the overall result is success, with a
\* message naming the fallback, iff the fallback's status is above 32.
C18_FallbackOnce ==
    (input.op = "Open" /\ windows) =>
        /\ Cardinality(FallbackCalls) <= 1
        /\ \A f \in FallbackCalls :
              /\ log[f].lpFile = <<"notepad">>
              /\ Top.kind = "file"
              /\ \E i \in PrimaryCalls : i < f /\ log[i].status = 2
        /\ phase = "done" =>
              /\ (Top.kind = "file" /\ \E i \in PrimaryCalls : log[i].status = 2) =>
                    FallbackCalls # {}
              /\ \A f \in FallbackCalls :
                    /\ ret.result.success <=> log[f].status > 32
                    /\ ret.result.success => ret.result.message.text = "Opened with Notepad"
                    /\ ~ret.result.success =>
                          ret.result.message.text = "No default program and Notepad fallback failed"

C18_Witness ==
    /\ OpenReturned
    /\ Top.kind = "file"
    /\ log[1].status = 2
    /\ FallbackCalls = {2}
    /\ log[2].status = 33
    /\ ret.result.success
    /\ ret.result.message.text = "Opened with Notepad"

\* C19 as stated: an Open whose resolved target does not exist fails with
\* success=false and a message saying that the target does not exist, and
\* the fallback is never invoked, whatever status the shell primitive
\* returns for that path.
C19_MissingTargetFails ==
    (OpenReturned /\ Top.kind = "missing") =>
        /\ ~ret.result.success
        /\ ret.result.message.text = "File does not exist"
        /\ FallbackCalls = {}

\* C19, amended: an Open whose resolved target does not exist still makes
\* the primary shell call, once, with the requested verb, and never invokes
\* the fallback; the call's status s decides the result: success when
\* s > 32, success=false with the "does not exist" message and error_code 2
\* when s = 2, success=false with the "System error" message and
\* error_code s for any other s <= 32.
C19_MissingTargetTried ==
    (input.op = "Open" /\ windows /\ phase \in {"executed", "fellback", "done"}
        /\ Top.kind = "missing") =>
        /\ phase # "fellback"
        /\ FallbackCalls = {}
        /\ PrimaryCalls = {1}
        /\ log[1].lpOperation = Some(RequestedVerb)
        /\ phase = "done" =>
              LET s == log[1].status
                  result == ret.result
              IN  /\ s > 32 => result.success /\ result.error_code = None
                  /\ s = 2 =>
                        /\ ~result.success
                        /\ result.message.text = "File does not exist"
                        /\ result.error_code = Some(2)
                  /\ (s <= 32 /\ s # 2) =>
                        /\ ~result.success
                        /\ result.message.text = "System error"
                        /\ result.message.n = s
                        /\ result.error_code = Some(s)

C19_Witness ==
    /\ OpenReturned
    /\ Top.kind = "missing"
    /\ Len(log) = 1
    /\ log[1].status = 2
    /\ ~ret.result.success
    /\ ret.result.message.text = "File does not exist"
    /\ ret.result.error_code = Some(2)

\* C20: a Terminal action whose terminal value is none of the supported
\* names returns a result (not an error) with success=false and a message
\* that names the value as unsupported, and nothing is spawned.
C20_UnsupportedTerminal ==
    (phase = "done" /\ input.op = "Terminal" /\ Unsupported(input.config.terminal)) =>
        /\ ret.tag = "Ok"
        /\ ~ret.result.success
        /\ ret.result.message.text = "Unsupported terminal type"
        /\ ret.result.message.arg = input.config.terminal
        /\ ret.result.error_code = None
        /\ log = <<>>

C20_Witness ==
    /\ phase = "done"
    /\ input.op = "Terminal"
    /\ input.config.terminal = "Foo"
    /\ stack[1].spawn = "running"
    /\ ret.tag = "Ok"
    /\ ~ret.result.success
    /\ ret.result.message.arg = "Foo"
    /\ log = <<>>

(***************************************************************************)
(* Properties of the command a Terminal execution builds (ExecutorSpec).   *)
(***************************************************************************)
TerminalExecuted ==
    phase = "done" /\ input.op = "Terminal"

\* The terminal family a name denotes when the case of its letters is
\* ignored; "" for a name of no family.
TerminalFamily(terminal) ==
    CASE terminal \in {"WindowsTerminal", "windowsterminal", "wt", "WT"} -> "wt"
      [] terminal \in {"PowerShell", "powershell", "pwsh"} -> "powershell"
      [] terminal \in {"Cmd", "cmd", "CMD"} -> "cmd"
      [] terminal \in {"WSL", "wsl", "Wsl"} -> "wsl"
      [] OTHER -> ""

\* The commands handed to Command::spawn.
SpawnedCommands ==
    { log[i].lpParameters[1] : i \in Calls("spawn") }

\* C21: the terminal family is selected without regard to the case of the
\* terminal value: a value that spells a family's name in any case ("wt",
\* "WT", "powershell", "CMD", "Wsl") spawns that family's program.
C21_CaseInsensitiveFamily ==
    (TerminalExecuted /\ TerminalFamily(input.config.terminal) # "") =>
        /\ Cardinality(Calls("spawn")) = 1
        /\ \A cmd \in SpawnedCommands : cmd.program = TerminalFamily(input.config.terminal)

\* What the code does for C21's case: the eight spellings of lines 399-461
\* select a family, every other spelling of a family's name is unsupported.
C21_ExactSpellingOnly ==
    TerminalExecuted =>
        IF input.config.terminal \in {"WindowsTerminal", "wt", "PowerShell", "pwsh",
                                      "Cmd", "cmd", "WSL", "wsl"}
        THEN /\ Cardinality(Calls("spawn")) = 1
             /\ \A cmd \in SpawnedCommands :
                    cmd.program = TerminalFamily(input.config.terminal)
        ELSE /\ log = <<>>
             /\ ret.result.message.text = "Unsupported terminal type"

C21_Witness ==
    /\ TerminalExecuted
    /\ input.config.terminal = "powershell"
    /\ ret.tag = "Ok"
    /\ ~ret.result.success
    /\ ret.result.message.text = "Unsupported terminal type"
    /\ log = <<>>

\* A drive-letter path: a letter, a colon, and the rest.
DriveLetters ==
    {"C", "D", "c"}

IsDriveLetterPath(path) ==
    Len(path) >= 2 /\ path[1] \in DriveLetters /\ path[2] = ":"

DriveName(letter) ==
    CASE letter = "C" -> "c"
      [] letter = "D" -> "d"
      [] OTHER -> letter

ForwardSlashes(path) ==
    [i \in 1..Len(path) |-> IF path[i] = "\\" THEN "/" ELSE path[i]]

MountPath(path) ==
    <<"/", "m", "n", "t", "/", DriveName(path[1])>>
        \o ForwardSlashes(SubSeq(path, 3, Len(path)))

\* The values that follow a --cd flag in the spawned command.
CdArguments ==
    UNION { { cmd.args[i + 1] : i \in {j \in 1..(Len(cmd.args) - 1) :
                                            cmd.args[j] = <<"--cd">>} } :
            cmd \in SpawnedCommands }

WslWithWorkdir ==
    /\ TerminalExecuted
    /\ input.config.terminal \in {"WSL", "wsl"}
    /\ input.config.workdir # None

\* C22: the WSL family hands the working directory to wsl as the --cd
\* argument: a drive-letter path, on any drive, as /mnt/<drive>/... with
\* forward slashes, and every other path unchanged (after expansion).
C22_DrivePathTranslated ==
    WslWithWorkdir =>
        LET expanded == expand_environment_variables(input.config.workdir[1])
        IN  CdArguments = { IF IsDriveLetterPath(expanded)
                            THEN MountPath(expanded)
                            ELSE expanded }

C22_Witness ==
    /\ WslWithWorkdir
    /\ input.config.workdir = Some(<<"D", ":", "\\", "w">>)
    /\ CdArguments = {<<"D", ":", "\\", "w">>}
    /\ ret.result.success

(***************************************************************************)
(* expand_environment_variables, one loop iteration at a time              *)
(* (ExpandSpec).  `input` is the argument and the process environment,     *)
(* `stack` holds the local `result`, `phase` is the position in the        *)
(* function and `ret` the string returned.                                 *)
(***************************************************************************)
MaxPieces ==
    3

\* Input strings are built from the token of the defined variable V, the
\* token of the undefined variable U, plain text and a lone percent sign.
StringPieces ==
    {<<"%", "V", "%">>, <<"%", "U", "%">>, <<"x">>, <<"%">>}

RECURSIVE Concat(_)
Concat(pieces) ==
    IF pieces = <<>> THEN <<>> ELSE Head(pieces) \o Concat(Tail(pieces))

Strings ==
    { Concat(pieces) : pieces \in SeqsUpTo(StringPieces, MaxPieces) }

\* Environments: a value without a percent sign, a value that ends with
\* one, a value that starts with one and goes on with a variable name, and
\* a value that is the variable's own token.
Environments ==
    { [name \in {<<"V">>} |-> value] :
        value \in {<<"x", "x">>, <<"x", "%">>, <<"%", "V">>, <<"%", "V", "%">>} }

ExpandInput(string, env) ==
    [op |-> "expand_environment_variables", string |-> string, env |-> env]

Returned(string) ==
    [tag |-> "String", value |-> string]

\* Line 737: the index of the first '%', 0 when find yields None.
token_start(result) ==
    find(result, "%", 1)

\* Line 738: the index of the next '%' after start, 0 when find yields None.
token_end(result) ==
    IF token_start(result) = 0 THEN 0 ELSE find(result, "%", token_start(result) + 1)

\* Line 739.
var_name(result) ==
    SubSeq(result, token_start(result) + 1, token_end(result) - 1)

\* Line 741: String::replace_range over the token, percent signs included.
replace_range(result, var_value) ==
    SubSeq(result, 1, token_start(result) - 1) \o var_value
        \o SubSeq(result, token_end(result) + 1, Len(result))

ExpandInit ==
    /\ windows = TRUE
    /\ input \in { ExpandInput(string, env) :
                      string \in Strings, env \in Environments }
    /\ phase = "start"
    /\ stack = <<>>
    /\ ret = NotReturned
    /\ clock = 0
    /\ log = <<>>

\* Line 734.
ExpandEnter ==
    /\ phase = "start"
    /\ stack' = <<input.string>>
    /\ phase' = "loop"
    /\ UNCHANGED <<input, windows, ret, clock, log>>

\* Lines 737-741: a token whose variable is defined is replaced by its value.
\* clock is the parity of the number of iterations run, so that an
\* iteration that leaves result as it was is a step all the same.
ExpandReplace ==
    /\ phase = "loop"
    /\ token_start(stack[1]) # 0
    /\ token_end(stack[1]) # 0
    /\ var_name(stack[1]) \in DOMAIN input.env
    /\ stack' = <<replace_range(stack[1], input.env[var_name(stack[1])])>>
    /\ clock' = (clock + 1) % 2
    /\ UNCHANGED <<input, windows, phase, ret, log>>

\* Lines 742-745: the variable of the token is not defined.
ExpandBreakUndefined ==
    /\ phase = "loop"
    /\ token_start(stack[1]) # 0
    /\ token_end(stack[1]) # 0
    /\ var_name(stack[1]) \notin DOMAIN input.env
    /\ phase' = "returning"
    /\ UNCHANGED <<input, windows, stack, ret, clock, log>>

\* Lines 746-748: a '%' without a closing '%'.
ExpandBreakUnclosed ==
    /\ phase = "loop"
    /\ token_start(stack[1]) # 0
    /\ token_end(stack[1]) = 0
    /\ phase' = "returning"
    /\ UNCHANGED <<input, windows, stack, ret, clock, log>>

\* Line 737: no '%' is left, the while loop ends.
ExpandLoopEnd ==
    /\ phase = "loop"
    /\ token_start(stack[1]) = 0
    /\ phase' = "returning"
    /\ UNCHANGED <<input, windows, stack, ret, clock, log>>

\* Line 752.
ExpandReturn ==
    /\ phase = "returning"
    /\ ret' = Returned(stack[1])
    /\ phase' = "done"
    /\ UNCHANGED <<input, windows, stack, clock, log>>

ExpandNext ==
    \/ ExpandEnter
    \/ ExpandReplace
    \/ ExpandBreakUndefined
    \/ ExpandBreakUnclosed
    \/ ExpandLoopEnd
    \/ ExpandReturn

ExpandSpec ==
    ExpandInit /\ [][ExpandNext]_vars

(***************************************************************************)
(* Properties of environment expansion (ExpandSpec).                       *)
(***************************************************************************)
ExpandReturned ==
    phase = "done" /\ input.op = "expand_environment_variables"

\* The %NAME% tokens of a string, paired left to right: the positions of the
\* opening percent signs.
RECURSIVE TokensFrom(_, _)
TokensFrom(string, from) ==
    LET start == find(string, "%", from)
        end == IF start = 0 THEN 0 ELSE find(string, "%", start + 1)
    IN  IF start = 0 \/ end = 0 THEN {}
        ELSE {<<start, end>>} \cup TokensFrom(string, end + 1)

Tokens(string) ==
    TokensFrom(string, 1)

TokenName(string, token) ==
    SubSeq(string, token[1] + 1, token[2] - 1)

TokenText(string, token) ==
    SubSeq(string, token[1], token[2])

UndefinedTokens(string, env) ==
    { token \in Tokens(string) : TokenName(string, token) \notin DOMAIN env }

Occurs(text, string) ==
    \E i \in 1..(Len(string) - Len(text) + 1) : SubSeq(string, i, i + Len(text) - 1) = text

\* No value of the environment holds a percent sign.
PlainValues(env) ==
    \A name \in DOMAIN env : ~contains(env[name], "%")

\* C23: expansion returns a string that holds no %NAME% token unchanged, and
\* it never fails on a token whose variable is not defined: it returns a
\* string, and every undefined token of the input stands verbatim in it.
C23_UndefinedTokenVerbatim ==
    ExpandReturned =>
        /\ ret.tag = "String"
        /\ Tokens(input.string) = {} => ret.value = input.string
        /\ \A token \in UndefinedTokens(input.string, input.env) :
                Occurs(TokenText(input.string, token), ret.value)

\* What the code does guarantee for C23's case: a string without a token,
\* or whose first token is undefined, is returned unchanged; and when no
\* value of the environment holds a percent sign, every undefined token of
\* the input stands verbatim in the output.
C23_VerbatimForPlainValues ==
    ExpandReturned =>
        /\ ret.tag = "String"
        /\ Tokens(input.string) = {} => ret.value = input.string
        /\ (\E token \in UndefinedTokens(input.string, input.env) :
                \A other \in Tokens(input.string) : token[1] <= other[1])
              => ret.value = input.string
        /\ PlainValues(input.env) =>
              \A token \in UndefinedTokens(input.string, input.env) :
                  Occurs(TokenText(input.string, token), ret.value)

\* The token %U% of the input is gone from the output: the value of V is
\* scanned again and joins the text that follows it into a new token.
C23_Witness ==
    /\ ExpandReturned
    /\ input.string = <<"%", "V", "%", "%", "U", "%">>
    /\ input.env[<<"V">>] = <<"%", "V">>
    /\ ret.value = <<"%", "V", "U", "%">>

(***************************************************************************)
(* Two top-level dispatches in progress at once (ConcurrentSpec).  Each    *)
(* execute_action command runs as its own task, on an ActionRunner it      *)
(* creates itself; the locals of execute_action_config and of              *)
(* MultiActionExecutor::execute belong to the task.  The variables are     *)
(* functions of the task: input[t] is its description, stack[t] its        *)
(* activations, phase[t] its position, ret[t] what its dispatch returned   *)
(* and log[t] the events of its dispatch, in order.  `clock` holds the     *)
(* wall clock, shared by the tasks, and the time each sleeping task wakes. *)
(***************************************************************************)
Tasks ==
    {1, 2}

ConcurrentInputs ==
    { LaunchApp,
      MultiAction(<<>>, None, None),
      MultiAction(<<LaunchApp, LaunchApp>>, Some(ExplicitDelayMs), None),
      MultiAction(<<SendKeys, LaunchApp>>, None, Some(FALSE)),
      MultiAction(<<MultiAction(<<LaunchApp>>, Some(0), None), LaunchApp>>, None, Some(FALSE)) }

\* The descriptions the second task is drawn from.
SecondInputs ==
    { LaunchApp,
      MultiAction(<<SendKeys, LaunchApp>>, None, Some(FALSE)),
      MultiAction(<<MultiAction(<<LaunchApp>>, Some(0), None), LaunchApp>>, None, Some(FALSE)) }

\* The spawn outcomes a task's steps meet.
ConcurrentPlatforms(config) ==
    IF Route(config) = "LaunchApp"
    THEN { platform \in SpawnPlatforms : platform.spawn \in {"running", "spawn_failed"} }
    ELSE {DefaultPlatform}

\* lib.rs line 113: the runner a command dispatches on is the one it has
\* just created.
action_runner_of_app_state(task) ==
    0

action_runner(task) ==
    task

\* A runner shared by two tasks would be reached through a lock held for
\* the length of the dispatch.
RunnerAvailable(task) ==
    \A other \in Tasks \ {task} :
        action_runner(other) = action_runner(task) => phase[other] \notin {"running", "sleeping"}

TopOf(task) ==
    stack[task][Len(stack[task])]

SetTopOf(task, frame) ==
    [stack EXCEPT ![task][Len(stack[task])] = frame]

ConcurrentInit ==
    /\ windows = TRUE
    /\ input \in { i \in [Tasks -> ConcurrentInputs] : i[2] \in SecondInputs }
    /\ phase = [task \in Tasks |-> "start"]
    /\ stack = [task \in Tasks |-> <<>>]
    /\ ret = [task \in Tasks |-> NotReturned]
    /\ clock = [now |-> 0, wake |-> [task \in Tasks |-> 0]]
    /\ log = [task \in Tasks |-> <<>>]

TaskDispatchLeaf(task) ==
    /\ phase[task] = "start"
    /\ RunnerAvailable(task)
    /\ Route(input[task]) # "MultiAction"
    /\ \E platform \in ConcurrentPlatforms(input[task]) :
         LET outcome == execute_action_config(input[task], platform, windows, PlatformCallMs)
         IN  /\ ret' = [ret EXCEPT ![task] = outcome.returned]
             /\ clock' = [clock EXCEPT !.now = @ + Elapsed(outcome.returned)]
             /\ log' = [log EXCEPT ![task] = @ \o LeafEvents(input[task], <<>>, outcome, platform)]
    /\ phase' = [phase EXCEPT ![task] = "done"]
    /\ UNCHANGED <<input, windows, stack>>

TaskDispatchMulti(task) ==
    /\ phase[task] = "start"
    /\ RunnerAvailable(task)
    /\ Route(input[task]) = "MultiAction"
    /\ stack' = [stack EXCEPT ![task] = <<NewFrame(input[task], <<>>, clock.now)>>]
    /\ log' = [log EXCEPT ![task] = Append(@, DispatchEvent(input[task], <<>>))]
    /\ phase' = [phase EXCEPT ![task] = "running"]
    /\ UNCHANGED <<input, windows, ret, clock>>

TaskExecuteStep(task) ==
    /\ phase[task] = "running"
    /\ TopOf(task).pc = "dispatch"
    /\ LET frame == TopOf(task)
           action == frame.actions[frame.index + 1]
           path == Append(frame.path, frame.index)
       IN  /\ Route(action) # "MultiAction"
           /\ \E platform \in ConcurrentPlatforms(action) :
                LET outcome == execute_action_config(action, platform, windows, PlatformCallMs)
                IN  /\ stack' = SetTopOf(task, StepReturned(frame, outcome.returned))
                    /\ clock' = [clock EXCEPT !.now = @ + Elapsed(outcome.returned)]
                    /\ log' = [log EXCEPT ![task] = @ \o LeafEvents(action, path, outcome, platform)]
    /\ UNCHANGED <<input, windows, phase, ret>>

TaskEnterNested(task) ==
    /\ phase[task] = "running"
    /\ TopOf(task).pc = "dispatch"
    /\ LET frame == TopOf(task)
           action == frame.actions[frame.index + 1]
           path == Append(frame.path, frame.index)
       IN  /\ Route(action) = "MultiAction"
           /\ stack' = [stack EXCEPT ![task] =
                            Append(SetTopOf(task, [frame EXCEPT !.pc = "await"])[task],
                                   NewFrame(action, path, clock.now))]
           /\ log' = [log EXCEPT ![task] = Append(@, DispatchEvent(action, path))]
    /\ UNCHANGED <<input, windows, phase, ret, clock>>

\* Line 661: the task goes to sleep; tokio's sleep gives the thread back.
TaskSleep(task) ==
    /\ phase[task] = "running"
    /\ TopOf(task).pc = "delay"
    /\ LET frame == TopOf(task)
       IN  /\ DelayDue(frame.index, Len(frame.actions), frame.delay_ms)
           /\ clock' = [clock EXCEPT !.wake[task] = clock.now + frame.delay_ms]
           /\ log' = [log EXCEPT ![task] = @ \o <<CheckEvent(frame.path, frame.index),
                                                  SleepEvent(frame.path, frame.index,
                                                             frame.delay_ms)>>]
    /\ phase' = [phase EXCEPT ![task] = "sleeping"]
    /\ UNCHANGED <<input, windows, stack, ret>>

\* The delay has passed: the loop goes on.
TaskWake(task) ==
    /\ phase[task] = "sleeping"
    /\ clock' = [clock EXCEPT !.now = IF @ < clock.wake[task] THEN clock.wake[task] ELSE @]
    /\ stack' = SetTopOf(task, NextIteration(TopOf(task)))
    /\ phase' = [phase EXCEPT ![task] = "running"]
    /\ UNCHANGED <<input, windows, ret, log>>

TaskSkipSleep(task) ==
    /\ phase[task] = "running"
    /\ TopOf(task).pc = "delay"
    /\ LET frame == TopOf(task)
       IN  /\ ~DelayDue(frame.index, Len(frame.actions), frame.delay_ms)
           /\ stack' = SetTopOf(task, NextIteration(frame))
           /\ log' = [log EXCEPT ![task] = Append(@, CheckEvent(frame.path, frame.index))]
    /\ UNCHANGED <<input, windows, phase, ret, clock>>

TaskReturnAggregate(task) ==
    /\ phase[task] = "running"
    /\ TopOf(task).pc = "aggregate"
    /\ LET frame == TopOf(task)
           returned == Ok(AggregateResult(frame, clock.now))
           rest == SubSeq(stack[task], 1, Len(stack[task]) - 1)
       IN  /\ log' = [log EXCEPT ![task] =
                         Append(@, ReturnEvent(frame.path, returned, DefaultPlatform))]
           /\ IF Len(stack[task]) = 1
              THEN /\ ret' = [ret EXCEPT ![task] = returned]
                   /\ phase' = [phase EXCEPT ![task] = "done"]
                   /\ stack' = [stack EXCEPT ![task] = <<>>]
              ELSE /\ stack' = [stack EXCEPT ![task] =
                                   [rest EXCEPT ![Len(rest)] =
                                       StepReturned(rest[Len(rest)], returned)]]
                   /\ UNCHANGED <<ret, phase>>
    /\ UNCHANGED <<input, windows, clock>>

TaskNext(task) ==
    \/ TaskDispatchLeaf(task)
    \/ TaskDispatchMulti(task)
    \/ TaskExecuteStep(task)
    \/ TaskEnterNested(task)
    \/ TaskSleep(task)
    \/ TaskWake(task)
    \/ TaskSkipSleep(task)
    \/ TaskReturnAggregate(task)

ConcurrentNext ==
    \E task \in Tasks : TaskNext(task)

ConcurrentSpec ==
    ConcurrentInit /\ [][ConcurrentNext]_vars

(***************************************************************************)
(* A dispatch run alone, as a function of the description and of what the  *)
(* platform answered to each leaf: what it returns and its events.         *)
(***************************************************************************)
ChosenPlatform(events, path) ==
    IF \E i \in 1..Len(events) : events[i].ev = "return" /\ events[i].path = path
    THEN events[CHOOSE i \in 1..Len(events) :
                    events[i].ev = "return" /\ events[i].path = path].platform
    ELSE DefaultPlatform

RECURSIVE Alone(_, _, _, _)
RECURSIVE AloneLoop(_, _, _, _)
Alone(config, path, win, events) ==
    IF Route(config) # "MultiAction"
    THEN LET platform == ChosenPlatform(events, path)
             outcome == execute_action_config(config, platform, win, PlatformCallMs)
         IN  Outcome(outcome.returned, LeafEvents(config, path, outcome, platform))
    ELSE AloneLoop(NewFrame(config, path, 0), <<DispatchEvent(config, path)>>, win, events)

AloneLoop(frame, history, win, events) ==
    CASE frame.pc = "dispatch" ->
            LET step == Alone(frame.actions[frame.index + 1],
                              Append(frame.path, frame.index), win, events)
            IN  AloneLoop(StepReturned(frame, step.returned), history \o step.calls,
                          win, events)
      [] frame.pc = "delay" ->
            AloneLoop(NextIteration(frame),
                      history \o (IF DelayDue(frame.index, Len(frame.actions), frame.delay_ms)
                                  THEN <<CheckEvent(frame.path, frame.index),
                                         SleepEvent(frame.path, frame.index, frame.delay_ms)>>
                                  ELSE <<CheckEvent(frame.path, frame.index)>>),
                      win, events)
      [] frame.pc = "aggregate" ->
            LET returned == Ok(AggregateResult(frame, 0))
            IN  Outcome(returned,
                        Append(history, ReturnEvent(frame.path, returned, DefaultPlatform)))

\* A result, and an event, without the measured durations.
RECURSIVE StripTime(_)
StripTime(result) ==
    [result EXCEPT
        !.execution_time_ms = 0,
        !.output = IF result.output = None THEN None
                   ELSE Some([i \in 1..Len(result.output[1]) |->
                                StripTime(result.output[1][i])])]

StripReturned(returned) ==
    [returned EXCEPT !.result = StripTime(@)]

StripEvents(events) ==
    [i \in 1..Len(events) |-> [events[i] EXCEPT !.returned = StripReturned(@)]]

\* C24: dispatches in progress at the same time are independent: under
\* every interleaving each one attempts the steps, in the order, and
\* returns the aggregate result (measured durations aside) of its run
\* alone against the same platform answers, and a dispatch that has not
\* returned can always take its next step, whatever the other one does.
C24_ConcurrentDispatchesIndependent ==
    \A task \in Tasks :
        /\ phase[task] = "done" =>
              LET alone == Alone(input[task], <<>>, windows, log[task])
              IN  /\ StripReturned(ret[task]) = StripReturned(alone.returned)
                  /\ StripEvents(log[task]) = StripEvents(alone.calls)
        /\ phase[task] # "done" => ENABLED TaskNext(task)

\* The function Alone is the run of the dispatcher on its own (Spec).
C24_AloneIsRunAlone ==
    phase = "done" =>
        LET alone == Alone(input, <<>>, windows, log)
        IN  /\ StripReturned(ret) = StripReturned(alone.returned)
            /\ StripEvents(log) = StripEvents(alone.calls)

\* Task 1 sleeps between its two steps while task 2 starts, runs its steps
\* and returns; task 1 then finishes with the result of its run alone.
C24_Witness ==
    /\ input[1] = MultiAction(<<LaunchApp, LaunchApp>>, Some(ExplicitDelayMs), None)
    /\ input[2] = MultiAction(<<SendKeys, LaunchApp>>, None, Some(FALSE))
    /\ phase[1] = "done"
    /\ phase[2] = "done"
    /\ ret[1].result.success
    /\ ~ret[2].result.success
    /\ ret[1].result.execution_time_ms > ExplicitDelayMs + 2 * PlatformCallMs

(***************************************************************************)
(* The execute_action command of lib.rs (CommandSpec), with get_config or  *)
(* save_config commands arriving while it runs.                            *)
(*                                                                         *)
(* A JSON value is its kind, its text (of a string or a number) and its    *)
(* items (the elements of an array, the values of an object's keys in a    *)
(* fixed order of the keys); a key that is not in a map holds Absent.      *)
(***************************************************************************)
MaxSubActions ==
    2

MaxConfigCommands ==
    1

Absent ==
    [json |-> "absent", text |-> "", items |-> <<>>]

JsonString(string) ==
    [json |-> "string", text |-> string, items |-> <<>>]

JsonNumber(number) ==
    [json |-> "number", text |-> number, items |-> <<>>]

JsonArray(elements) ==
    [json |-> "array", text |-> "", items |-> elements]

JsonObject(fields) ==
    [json |-> "object", text |-> "", items |-> fields]

\* Map::get: the value of a key, in a button's config map or in the object
\* of a sub-action.
get(map, key) ==
    map[CASE key \in {"path", "action_type"} -> 1
          [] key \in {"target", "config"} -> 2
          [] key = "terminal" -> 3
          [] key = "actions" -> 4]

ButtonConfig(path, target, terminal, actions) ==
    <<path, target, terminal, actions>>

ActionButton(label, action_type, config) ==
    [label |-> label, action_type |-> action_type, config |-> config]

\* config.rs lines 93-101.
ActionType ==
    {"LaunchApp", "Open", "Terminal", "SendKeys", "PowerShell", "Folder", "MultiAction"}

\* An element of a MultiAction button's "actions" array that is an object.
SubAction(action_type, config) ==
    JsonObject(<<action_type, config>>)

\* Value::as_str / as_array / as_object: whether the value is of that kind.
is_kind(value, kind) ==
    value.json = kind

\* lib.rs lines 721-825.  ConvertActions is the for loop of lines 792-811:
\* it gives None where a `?` leaves the function.
RECURSIVE button_to_action_config(_)
RECURSIVE ConvertActions(_, _)
button_to_action_config(button) ==
    CASE button.action_type = "LaunchApp" ->
            IF is_kind(get(button.config, "path"), "string") THEN Some(LaunchApp) ELSE None
      [] button.action_type = "Open" ->
            IF is_kind(get(button.config, "target"), "string") THEN Some(Open) ELSE None
      [] button.action_type = "Terminal" ->
            IF is_kind(get(button.config, "terminal"), "string")
            THEN Some(Terminal(get(button.config, "terminal").text))
            ELSE None
      [] button.action_type = "MultiAction" ->
            IF is_kind(get(button.config, "actions"), "array")
            THEN LET actions == ConvertActions(get(button.config, "actions").items, <<>>)
                 IN  IF actions = None THEN None
                     ELSE Some(MultiAction(actions[1], None, None))
            ELSE None
      [] OTHER -> None

ConvertActions(actions_array, actions) ==
    IF actions_array = <<>> THEN Some(actions)
    ELSE LET action_value == Head(actions_array)
             action_obj == action_value.items
         IN  IF ~is_kind(action_value, "object")
             THEN ConvertActions(Tail(actions_array), actions)
             ELSE IF \/ ~is_kind(get(action_obj, "action_type"), "string")
                     \/ get(action_obj, "action_type").text \notin ActionType
                     \/ ~is_kind(get(action_obj, "config"), "object")
             THEN None
             ELSE LET temp_button == ActionButton("temp", get(action_obj, "action_type").text,
                                                  get(action_obj, "config").items)
                      action_config == button_to_action_config(temp_button)
                  IN  ConvertActions(Tail(actions_array),
                                     IF action_config = None THEN actions
                                     ELSE Append(actions, action_config[1]))

\* lib.rs lines 119-141: the buttons are visited in order; a button whose
\* identifier or label is action_id and whose conversion yields Some ends
\* the search, a button whose conversion yields None is passed over.
button_id(index) ==
    CASE index = 1 -> "p:g:0:0"
      [] index = 2 -> "p:g:0:1"
      [] OTHER -> "p:g:0:2"

RECURSIVE FindAction(_, _, _)
FindAction(buttons, index, action_id) ==
    IF index > Len(buttons) THEN None
    ELSE IF /\ (button_id(index) = action_id \/ buttons[index].label = action_id)
            /\ button_to_action_config(buttons[index]) # None
    THEN button_to_action_config(buttons[index])
    ELSE FindAction(buttons, index + 1, action_id)

\* The positions of execute_action at which the guard of the
\* config_manager lock is alive: the block of lines 104-110.
HoldsConfigLock_to_return(pc) ==
    pc \in {"cloning", "searching", "dispatching", "matching", "logging"}

HoldsConfigLock(pc) ==
    pc = "cloning"

\* The positions at which the guard of the logger_service lock is alive:
\* the block of lines 155-174.
HoldsLoggerLock(pc) ==
    pc = "logging"

\* logger.rs lines 90-99 and lib.rs lines 157-168.
ActionLog(action_id, result, execution_time_ms, error_message) ==
    [action_type |-> "execute_action", action_id |-> action_id, result |-> result,
     execution_time_ms |-> execution_time_ms, error_message |-> error_message]

ActionLog_without_error_message(action_id, result) ==
    ActionLog(action_id, IF result.success THEN "Success" ELSE "Failed",
              result.execution_time_ms, None)

log_entry(action_id, result) ==
    ActionLog(action_id, IF result.success THEN "Success" ELSE "Failed",
              result.execution_time_ms,
              IF result.success THEN None ELSE Some(result.message))

\* What action_runner.execute_action_config(&action_config).await yields to
\* the match of line 146: a successful result, a failed result, or an error.
EngineReturns ==
    { Ok(ActionResult(TRUE, Message("launched successfully", "", 0, 0),
                      PlatformCallMs, None, None)),
      Ok(ActionResult(FALSE, Message("Failed to launch", "", 0, 0),
                      PlatformCallMs, None, None)),
      Err("No executor found for action type") }

CommandEvent(ev, action_config, entry, dispatching) ==
    [ev |-> ev, action_config |-> action_config, entry |-> entry, dispatching |-> dispatching]

\* Inputs: the sub-actions, the buttons and the configurations.
SubActions ==
    { JsonString("x"),
      SubAction(Absent, JsonObject(ButtonConfig(JsonString("a"), Absent, Absent, Absent))),
      SubAction(JsonString("LaunchApp"),
                JsonObject(ButtonConfig(JsonString("a"), Absent, Absent, Absent))),
      SubAction(JsonString("LaunchApp"),
                JsonObject(ButtonConfig(Absent, Absent, Absent, Absent))),
      SubAction(JsonString("SendKeys"),
                JsonObject(ButtonConfig(Absent, Absent, Absent, Absent))) }

FirstButtons ==
    { ActionButton("a", "LaunchApp", ButtonConfig(path, Absent, Absent, Absent)) :
        path \in {JsonString("a"), JsonNumber("1"), Absent} }
    \cup { ActionButton("a", "Open", ButtonConfig(Absent, target, Absent, Absent)) :
            target \in {JsonString("a"), Absent} }
    \cup { ActionButton("a", "Terminal", ButtonConfig(Absent, Absent, JsonString("wt"), Absent)),
           ActionButton("a", "SendKeys", ButtonConfig(Absent, Absent, Absent, Absent)) }
    \cup { ActionButton("a", "MultiAction", ButtonConfig(Absent, Absent, Absent, actions)) :
            actions \in {Absent, JsonString("a")}
                        \cup { JsonArray(elements) :
                                  elements \in SeqsUpTo(SubActions, MaxSubActions) } }

SecondButtons ==
    { ActionButton(label, "Open", ButtonConfig(Absent, JsonString("a"), Absent, Absent)) :
        label \in {"a", "b"} }

QDeckConfigs ==
    { <<first>> : first \in FirstButtons }
    \cup { <<first, second>> : first \in FirstButtons, second \in SecondButtons }

\* The configuration a save_config command brings: one without buttons.
SavedConfig ==
    <<>>

ActionIds ==
    {"a", "b", button_id(1)}

CommandInput(action_id, config) ==
    [action_id |-> action_id, config |-> config]

\* `phase` holds the position of execute_action and of the config command
\* in progress, `stack` the locals of execute_action, the configuration in
\* the ConfigManager and the number of config commands served, `log` the
\* descriptions handed to the engine, the entries logged and the config
\* commands completed.
CommandInit ==
    /\ windows = TRUE
    /\ input \in { CommandInput(action_id, config) :
                      action_id \in ActionIds, config \in QDeckConfigs }
    /\ phase = [execute_action |-> "start", config_command |-> "idle"]
    /\ stack = [config |-> <<>>, action_config |-> None, result |-> NotReturned,
                config_manager |-> input.config, served |-> 0]
    /\ ret = NotReturned
    /\ clock = 0
    /\ log = <<>>

\* Lines 104-109: the config_manager lock is taken and the configuration
\* cloned.
ExecuteActionLockConfig ==
    /\ phase.execute_action = "start"
    /\ phase.config_command = "idle"
    /\ phase' = [phase EXCEPT !.execute_action = "cloning"]
    /\ stack' = [stack EXCEPT !.config = stack.config_manager]
    /\ UNCHANGED <<input, windows, ret, clock, log>>

\* Line 110: the block ends and the guard is dropped.
ExecuteActionUnlockConfig ==
    /\ phase.execute_action = "cloning"
    /\ phase' = [phase EXCEPT !.execute_action = "searching"]
    /\ UNCHANGED <<input, windows, stack, ret, clock, log>>

\* Lines 113-144, the search fails: "Action not found".
ExecuteActionNotFound ==
    /\ phase.execute_action = "searching"
    /\ FindAction(stack.config, 1, input.action_id) = None
    /\ ret' = Err("Action not found")
    /\ phase' = [phase EXCEPT !.execute_action = "done"]
    /\ UNCHANGED <<input, windows, stack, clock, log>>

\* Lines 113-146, the search succeeds: the description is handed to the
\* engine and the command awaits the dispatch.
ExecuteActionDispatch ==
    /\ phase.execute_action = "searching"
    /\ FindAction(stack.config, 1, input.action_id) # None
    /\ LET action_config == FindAction(stack.config, 1, input.action_id)
       IN  /\ stack' = [stack EXCEPT !.action_config = action_config]
           /\ log' = Append(log, CommandEvent("dispatch", action_config, None, TRUE))
    /\ phase' = [phase EXCEPT !.execute_action = "dispatching"]
    /\ UNCHANGED <<input, windows, ret, clock>>

\* Line 146: the dispatch returns.
ExecuteActionDispatchReturns ==
    /\ phase.execute_action = "dispatching"
    /\ \E returned \in EngineReturns :
          /\ stack' = [stack EXCEPT !.result = returned]
          /\ clock' = clock + Elapsed(returned)
    /\ phase' = [phase EXCEPT !.execute_action = "matching"]
    /\ UNCHANGED <<input, windows, ret, log>>

\* Lines 147-173, the Ok arm: the logger_service lock is taken and the
\* entry logged.
ExecuteActionLogResult ==
    /\ phase.execute_action = "matching"
    /\ stack.result.tag = "Ok"
    /\ log' = Append(log, CommandEvent("log_action", None,
                                       Some(log_entry(input.action_id, stack.result.result)),
                                       FALSE))
    /\ phase' = [phase EXCEPT !.execute_action = "logging"]
    /\ UNCHANGED <<input, windows, stack, ret, clock>>

\* Lines 174-176: the logger guard is dropped and the result returned.
ExecuteActionReturn ==
    /\ phase.execute_action = "logging"
    /\ ret' = stack.result
    /\ phase' = [phase EXCEPT !.execute_action = "done"]
    /\ UNCHANGED <<input, windows, stack, clock, log>>

\* Lines 178-181, the Err arm.
ExecuteActionDispatchError ==
    /\ phase.execute_action = "matching"
    /\ stack.result.tag = "Err"
    /\ ret' = Err(stack.result.error)
    /\ phase' = [phase EXCEPT !.execute_action = "done"]
    /\ UNCHANGED <<input, windows, stack, clock, log>>

\* Lines 32 and 41: a get_config or save_config command takes the
\* config_manager lock.
ConfigCommandLock ==
    /\ phase.config_command = "idle"
    /\ stack.served < MaxConfigCommands
    /\ ~HoldsConfigLock(phase.execute_action)
    /\ \E command \in {"get_config", "save_config"} :
          phase' = [phase EXCEPT !.config_command = command]
    /\ UNCHANGED <<input, windows, stack, ret, clock, log>>

\* Lines 33-34: get_config returns a clone and drops the guard.
GetConfigReturn ==
    /\ phase.config_command = "get_config"
    /\ phase' = [phase EXCEPT !.config_command = "idle"]
    /\ stack' = [stack EXCEPT !.served = @ + 1]
    /\ log' = Append(log, CommandEvent("get_config", None, None,
                                       phase.execute_action = "dispatching"))
    /\ UNCHANGED <<input, windows, ret, clock>>

\* Lines 46-56: save_config replaces the configuration and drops the guard.
SaveConfigReturn ==
    /\ phase.config_command = "save_config"
    /\ phase' = [phase EXCEPT !.config_command = "idle"]
    /\ stack' = [stack EXCEPT !.config_manager = SavedConfig, !.served = @ + 1]
    /\ log' = Append(log, CommandEvent("save_config", None, None,
                                       phase.execute_action = "dispatching"))
    /\ UNCHANGED <<input, windows, ret, clock>>

CommandNext ==
    \/ ExecuteActionLockConfig
    \/ ExecuteActionUnlockConfig
    \/ ExecuteActionNotFound
    \/ ExecuteActionDispatch
    \/ ExecuteActionDispatchReturns
    \/ ExecuteActionLogResult
    \/ ExecuteActionReturn
    \/ ExecuteActionDispatchError
    \/ ConfigCommandLock
    \/ GetConfigReturn
    \/ SaveConfigReturn

CommandSpec ==
    CommandInit /\ [][CommandNext]_vars

(***************************************************************************)
(* Properties of the execute_action command (CommandSpec).                 *)
(***************************************************************************)
CommandEvents(ev) ==
    {i \in 1..Len(log) : log[i].ev = ev}

DispatchInProgress ==
    phase.execute_action = "dispatching"

ExecuteActionReturned ==
    phase.execute_action = "done"

\* C25: execute_action holds no lock of the application state while the
\* dispatch is in progress: the config_manager lock has been released
\* before and the logger_service lock is not yet taken, so a get_config or
\* save_config command that arrives can take the config_manager lock, and
\* one that has it can return.
C25_NoLockDuringDispatch ==
    DispatchInProgress =>
        /\ ~HoldsConfigLock(phase.execute_action)
        /\ ~HoldsLoggerLock(phase.execute_action)
        /\ CommandEvents("log_action") = {}
        /\ (phase.config_command = "idle" /\ stack.served < MaxConfigCommands)
              => ENABLED ConfigCommandLock
        /\ phase.config_command = "get_config" => ENABLED GetConfigReturn
        /\ phase.config_command = "save_config" => ENABLED SaveConfigReturn

\* A save_config command has completed while the dispatch was in progress,
\* and the dispatch has then returned its result.
C25_Witness ==
    /\ ExecuteActionReturned
    /\ ret.tag = "Ok"
    /\ \E i \in CommandEvents("save_config") :
          /\ log[i].dispatching
          /\ \E d \in CommandEvents("dispatch"), l \in CommandEvents("log_action") :
                d < i /\ i < l

\* The entry the caller is expected to record for what a dispatch returned.
ExpectedEntry(action_id, returned) ==
    IF returned.tag = "Ok"
    THEN ActionLog(action_id, IF returned.result.success THEN "Success" ELSE "Failed",
                   returned.result.execution_time_ms,
                   IF returned.result.success THEN None ELSE Some(returned.result.message))
    ELSE ActionLog(action_id, "Failed", 0, Some(Message(returned.error, "", 0, 0)))

C26_ResultsLoggedErrorsNot ==
    (ExecuteActionReturned /\ CommandEvents("dispatch") # {}) =>
        IF stack.result.tag = "Ok"
        THEN /\ Cardinality(CommandEvents("log_action")) = 1
             /\ \A d \in CommandEvents("dispatch"), l \in CommandEvents("log_action") :
                   d < l /\ log[l].entry[1] = ExpectedEntry(input.action_id, stack.result)
             /\ ret = stack.result
        ELSE /\ CommandEvents("log_action") = {}
             /\ ret = Err(stack.result.error)

Matches(buttons, index, action_id) ==
    button_id(index) = action_id \/ buttons[index].label = action_id

Selected(buttons, action_id) ==
    IF \E index \in 1..Len(buttons) : Matches(buttons, index, action_id)
    THEN CHOOSE index \in 1..Len(buttons) :
            /\ Matches(buttons, index, action_id)
            /\ \A before \in 1..(index - 1) : ~Matches(buttons, before, action_id)
    ELSE 0

\* A button all of whose configuration converts: its required key is a
\* string and, for a MultiAction, "actions" is an array whose every element
\* is an object with an action type, a config object and a configuration
\* that converts.
RECURSIVE FullyConvertible(_)
FullyConvertible(button) ==
    CASE button.action_type = "LaunchApp" -> is_kind(get(button.config, "path"), "string")
      [] button.action_type = "Open" -> is_kind(get(button.config, "target"), "string")
      [] button.action_type = "Terminal" -> is_kind(get(button.config, "terminal"), "string")
      [] button.action_type = "MultiAction" ->
            /\ is_kind(get(button.config, "actions"), "array")
            /\ \A i \in 1..Len(get(button.config, "actions").items) :
                  LET element == get(button.config, "actions").items[i]
                  IN  /\ is_kind(element, "object")
                      /\ is_kind(get(element.items, "action_type"), "string")
                      /\ get(element.items, "action_type").text \in ActionType
                      /\ is_kind(get(element.items, "config"), "object")
                      /\ FullyConvertible(ActionButton("temp",
                                                       get(element.items, "action_type").text,
                                                       get(element.items, "config").items))
      [] OTHER -> FALSE

\* C27: when the configuration of the button action_id selects cannot be
\* converted (a required key missing or of the wrong type, at the top level
\* or in a sub-action), execute_action returns "Action not found" and
\* dispatches nothing; no description handed to the engine is built from a
\* partly converted button.
C27_UnconvertibleNotDispatched ==
    ExecuteActionReturned =>
        LET selected == Selected(stack.config, input.action_id)
        IN  /\ (selected # 0 /\ ~FullyConvertible(stack.config[selected])) =>
                  /\ ret = Err("Action not found")
                  /\ CommandEvents("dispatch") = {}
            /\ \A d \in CommandEvents("dispatch") :
                  \E index \in 1..Len(stack.config) :
                      /\ FullyConvertible(stack.config[index])
                      /\ log[d].action_config = button_to_action_config(stack.config[index])

\* What the code does for C27's case: "Action not found" is returned, and
\* nothing dispatched, exactly when button_to_action_config yields None for
\* every button that action_id names; a description that is dispatched is
\* what button_to_action_config yields for the first button it names for
\* which it yields one.
C27_FirstConvertedIsDispatched ==
    ExecuteActionReturned =>
        LET named == {index \in 1..Len(stack.config) :
                         /\ Matches(stack.config, index, input.action_id)
                         /\ button_to_action_config(stack.config[index]) # None}
        IN  IF named = {}
            THEN ret = Err("Action not found") /\ CommandEvents("dispatch") = {}
            ELSE /\ Cardinality(CommandEvents("dispatch")) = 1
                 /\ \A d \in CommandEvents("dispatch") :
                       \E index \in named :
                           /\ \A other \in named : index <= other
                           /\ log[d].action_config
                                 = button_to_action_config(stack.config[index])

\* A MultiAction button whose second sub-action has no "path": the
\* sub-action is left out and the rest is dispatched.
C27_Witness ==
    /\ ExecuteActionReturned
    /\ Len(stack.config) = 1
    /\ stack.config[1].action_type = "MultiAction"
    /\ get(stack.config[1].config, "actions")
          = JsonArray(<<SubAction(JsonString("LaunchApp"),
                                  JsonObject(ButtonConfig(JsonString("a"), Absent, Absent,
                                                          Absent))),
                        SubAction(JsonString("LaunchApp"),
                                  JsonObject(ButtonConfig(Absent, Absent, Absent, Absent)))>>)
    /\ \E d \in CommandEvents("dispatch") :
          log[d].action_config = Some(MultiAction(<<LaunchApp>>, None, None))
    /\ ret.tag = "Ok"


(***************************************************************************)
(* Termination of a MultiAction dispatch.  The loop of                     *)
(* MultiActionExecutor::execute runs in one task of the async runtime: the *)
(* runtime polls a task that is ready, a sleep's timer fires, and a leaf   *)
(* execution is taken to return (it is one step of the model).  Hence a    *)
(* step that stays possible is eventually taken: weak fairness of Next.    *)
(* No action of Next ends the dispatch from outside: the code passes no    *)
(* cancellation token and checks none.                                     *)
(***************************************************************************)
LiveSpec ==
    Init /\ [][Next]_vars /\ WF_vars(Next)

\* No step of any list was dispatched twice.
EachStepAtMostOnce ==
    \A i \in Dispatches, j \in Dispatches : log[i].path = log[j].path => i = j

\* The composite at path left its loop at the end of the list, or at a
\* failed step with stop_on_error in force.
RanToEndOrBreak(path) ==
    \/ Attempted(path) = Len(ConfigAt(path).actions)
    \/ /\ StopsOnError(ConfigAt(path))
       /\ \E c \in ChildEvents("return", path) :
            /\ ~Succeeded(log[c].returned)
            /\ Last(log[c].path) = Attempted(path) - 1

MultiActionDispatched ==
    phase = "start" /\ input.type = "MultiAction"

MultiActionReturned ==
    /\ phase = "done"
    /\ ret # NotReturned
    /\ ret.tag = "Ok"
    /\ stack = <<>>
    /\ EachStepAtMostOnce
    /\ \A i \in CompositeDispatches :
         /\ Cardinality(EventsAt("return", log[i].path)) = 1
         /\ RanToEndOrBreak(log[i].path)

\* C28: every dispatch of a MultiAction (finite list, finite nesting, leaf
\* executions that return) eventually returns a result; by then every
\* composite of the nesting has returned once, each after running to the
\* end of its list or to a stop-on-error break, and no step was attempted
\* twice.  Nothing but the loop's own steps ends the dispatch.
C28_MultiActionTerminates ==
    MultiActionDispatched ~> MultiActionReturned

\* A nested dispatch that returned: one composite stopped at a failed step
\* before the end of its list, another ran a list of two or more to its end.
C28_Witness ==
    /\ MultiActionReturned
    /\ input.type = "MultiAction"
    /\ \E i \in CompositeDispatches :
         Attempted(log[i].path) < Len(ConfigAt(log[i].path).actions)
    /\ \E i \in CompositeDispatches :
         /\ Len(ConfigAt(log[i].path).actions) >= 2
         /\ Attempted(log[i].path) = Len(ConfigAt(log[i].path).actions)
    /\ Cardinality(CompositeDispatches) >= 2


(***************************************************************************)
(* Profile and page navigation (modules/profile.rs).  A configuration is   *)
(* kept as its list of profiles, a profile as its name and the number of   *)
(* its pages: the navigation code reads nothing else of them that decides  *)
(* an index.  Indices are zero-based as in the code; config[i + 1] is      *)
(* config.profiles[i].                                                     *)
(***************************************************************************)
MaxProfiles ==
    2

MaxPages ==
    3

Profile(name, pages) ==
    [name |-> name, pages |-> pages]

\* ProfileState; last_active_pages is a function whose domain is the set of
\* keys of the HashMap.
ProfileState(current_profile_index, current_page_index, last_active_pages) ==
    [current_profile_index |-> current_profile_index,
     current_page_index |-> current_page_index,
     last_active_pages |-> last_active_pages]

EmptyMap ==
    [name \in {} |-> 0]

ProfileState_default ==
    ProfileState(0, 0, EmptyMap)

insert(map, key, value) ==
    [k \in DOMAIN map \cup {key} |-> IF k = key THEN value ELSE map[k]]

min(a, b) ==
    IF a <= b THEN a ELSE b

saturating_sub(a, b) ==
    IF a >= b THEN a - b ELSE 0

\* ProfileInfo and PageInfo, as one record shape: a PageInfo has the index
\* of the page, a ProfileInfo the profile's name, index, page count and
\* current page.
ProfileInfo(name, index, page_count, current_page_index) ==
    [name |-> name, index |-> index, page_count |-> page_count,
     current_page_index |-> current_page_index]

PageInfo(index) ==
    [name |-> "", index |-> index, page_count |-> 0, current_page_index |-> 0]

NoInfo ==
    [name |-> "", index |-> 0, page_count |-> 0, current_page_index |-> 0]

NavOk(info) ==
    [tag |-> "Ok", info |-> info, error |-> ""]

NavErr(error) ==
    [tag |-> "Err", info |-> NoInfo, error |-> error]

\* What a &mut self method leaves behind: the state and the value returned.
NavOutcome(state, returned) ==
    [state |-> state, returned |-> returned]

\* last_active_pages.get(&profile.name).copied().unwrap_or(0)
\*     .min(profile.pages.len().saturating_sub(1))
\* The remembered page taken as it is, without the clamp to the last page.
last_active_page_unclamped(state, profile) ==
    IF profile.name \in DOMAIN state.last_active_pages
    THEN state.last_active_pages[profile.name] ELSE 0

last_active_page(state, profile) ==
    min(IF profile.name \in DOMAIN state.last_active_pages
        THEN state.last_active_pages[profile.name] ELSE 0,
        saturating_sub(profile.pages, 1))

switch_to_profile(state, profile_index, config) ==
    IF profile_index >= Len(config)
    THEN NavOutcome(state, NavErr("Profile index is out of bounds"))
    ELSE LET profile == config[profile_index + 1]
             page_index == last_active_page(state, profile)
         IN  NavOutcome([state EXCEPT !.current_profile_index = profile_index,
                                   !.current_page_index = page_index],
                     NavOk(ProfileInfo(profile.name, profile_index,
                                       profile.pages, page_index)))

\* config.profiles.iter().position(|p| p.name == profile_name)
position(config, profile_name) ==
    LET found == {i \in 0..(Len(config) - 1) : config[i + 1].name = profile_name}
    IN  IF found = {} THEN None
        ELSE Some(CHOOSE i \in found : \A j \in found : i <= j)

switch_to_profile_by_name(state, profile_name, config) ==
    IF position(config, profile_name) = None
    THEN NavOutcome(state, NavErr("Profile not found"))
    ELSE switch_to_profile(state, position(config, profile_name)[1], config)

switch_to_page(state, page_index, config) ==
    IF state.current_profile_index >= Len(config)
    THEN NavOutcome(state, NavErr("Current profile index is out of bounds"))
    ELSE LET profile == config[state.current_profile_index + 1]
         IN  IF page_index >= profile.pages
             THEN NavOutcome(state, NavErr("Page index is out of bounds for profile"))
             ELSE NavOutcome([state EXCEPT
                              !.current_page_index = page_index,
                              !.last_active_pages = insert(@, profile.name, page_index)],
                          NavOk(PageInfo(page_index)))

next_page_index_without_wrap(current_page_index, len) ==
    current_page_index + 1

next_page_index(current_page_index, len) ==
    (current_page_index + 1) % len

prev_page_index(current_page_index, len) ==
    IF current_page_index = 0 THEN len - 1 ELSE current_page_index - 1

next_page(state, config) ==
    IF state.current_profile_index >= Len(config)
    THEN NavOutcome(state, NavErr("Current profile index is out of bounds"))
    ELSE LET profile == config[state.current_profile_index + 1]
         IN  IF profile.pages = 0
             THEN NavOutcome(state, NavErr("No pages in current profile"))
             ELSE switch_to_page(state,
                                 next_page_index(state.current_page_index, profile.pages),
                                 config)

previous_page(state, config) ==
    IF state.current_profile_index >= Len(config)
    THEN NavOutcome(state, NavErr("Current profile index is out of bounds"))
    ELSE LET profile == config[state.current_profile_index + 1]
         IN  IF profile.pages = 0
             THEN NavOutcome(state, NavErr("No pages in current profile"))
             ELSE switch_to_page(state,
                                 prev_page_index(state.current_page_index, profile.pages),
                                 config)

\* initialize_from_config: the indices are reset to 0 when out of bounds,
\* and every profile name without an entry gets the entry 0.
initialize_from_config(state, config) ==
    IF Len(config) = 0 THEN state
    ELSE LET profile_index == IF state.current_profile_index >= Len(config)
                              THEN 0 ELSE state.current_profile_index
             page_index == IF state.current_page_index >= config[profile_index + 1].pages
                           THEN 0 ELSE state.current_page_index
             names == {config[i].name : i \in 1..Len(config)}
         IN  ProfileState(profile_index, page_index,
                 [name \in DOMAIN state.last_active_pages \cup names |->
                     IF name \in DOMAIN state.last_active_pages
                     THEN state.last_active_pages[name] ELSE 0])

(***************************************************************************)
(* The navigation commands as a state machine.  The variables hold:        *)
(* input, the configuration; stack, the ProfileState of the manager; ret,  *)
(* the last call (its name, its arguments, the indices before it and what  *)
(* it returned); windows, for one profile index chosen at the start, the   *)
(* page of the last switch_to_page that succeeded while that profile was   *)
(* current (None when there was none): a history of the calls, not a part  *)
(* of the program.                                                         *)
(* The configuration passes validate_config: one profile or more, each     *)
(* with a non-empty name and one page or more; names need not differ.      *)
(***************************************************************************)
ProfileNames ==
    {"A", "B"}

PageCounts ==
    1..MaxPages

NavProfiles ==
    { Profile(name, pages) : name \in ProfileNames, pages \in PageCounts }

\* The code only compares profile names with each other and with the name
\* it is asked for, so the first profile is given the first name.
NavConfigs ==
    { config \in SeqsUpTo(NavProfiles, MaxProfiles) \ {<<>>} : config[1].name = "A" }

\* A call: before is the pair of indices the manager held when it was made.
Call(op, index, name, before, returned) ==
    [op |-> op, index |-> index, name |-> name,
     before |-> [current_profile_index |-> before.current_profile_index,
                 current_page_index |-> before.current_page_index],
     returned |-> returned]

Watched(profile_index, page) ==
    [profile |-> profile_index, page |-> page]

\* The history after a call of switch_to_page, next_page or previous_page
\* made in state `before`: a page switch that succeeded while the watched
\* profile was current is the one remembered from now on.
Remember(watched, before, outcome) ==
    IF outcome.returned.tag = "Ok" /\ before.current_profile_index = watched.profile
    THEN Watched(watched.profile, Some(outcome.state.current_page_index))
    ELSE watched

ProfileInit ==
    /\ input \in NavConfigs
    /\ \E profile_index \in 0..(Len(input) - 1) : windows = Watched(profile_index, None)
    /\ phase = "new"
    /\ stack = ProfileState_default
    /\ ret = Call("new", 0, "", ProfileState_default, NavOk(NoInfo))
    /\ clock = 0
    /\ log = <<>>

\* lib.rs, setup: ProfileManager::new, then initialize_from_config, before
\* the manager is put into the application state.
InitializeFromConfig ==
    /\ phase = "new"
    /\ stack' = initialize_from_config(stack, input)
    /\ ret' = Call("initialize_from_config", 0, "", stack, NavOk(NoInfo))
    /\ phase' = "ready"
    /\ UNCHANGED <<input, windows, clock, log>>

SwitchToProfile ==
    /\ phase = "ready"
    /\ \E profile_index \in 0..Len(input) :
         LET outcome == switch_to_profile(stack, profile_index, input)
         IN  /\ stack' = outcome.state
             /\ ret' = Call("switch_to_profile", profile_index, "", stack, outcome.returned)
    /\ UNCHANGED <<input, windows, phase, clock, log>>

SwitchToProfileByName ==
    /\ phase = "ready"
    /\ \E profile_name \in ProfileNames :
         LET outcome == switch_to_profile_by_name(stack, profile_name, input)
         IN  /\ stack' = outcome.state
             /\ ret' = Call("switch_to_profile_by_name",
                            unwrap_or(position(input, profile_name), Len(input)),
                            profile_name, stack, outcome.returned)
    /\ UNCHANGED <<input, windows, phase, clock, log>>

SwitchToPage ==
    /\ phase = "ready"
    /\ \E page_index \in 0..MaxPages :
         LET outcome == switch_to_page(stack, page_index, input)
         IN  /\ stack' = outcome.state
             /\ ret' = Call("switch_to_page", page_index, "", stack, outcome.returned)
             /\ windows' = Remember(windows, stack, outcome)
    /\ UNCHANGED <<input, phase, clock, log>>

NextPage ==
    /\ phase = "ready"
    /\ LET outcome == next_page(stack, input)
       IN  /\ stack' = outcome.state
           /\ ret' = Call("next_page", 0, "", stack, outcome.returned)
           /\ windows' = Remember(windows, stack, outcome)
    /\ UNCHANGED <<input, phase, clock, log>>

PreviousPage ==
    /\ phase = "ready"
    /\ LET outcome == previous_page(stack, input)
       IN  /\ stack' = outcome.state
           /\ ret' = Call("previous_page", 0, "", stack, outcome.returned)
           /\ windows' = Remember(windows, stack, outcome)
    /\ UNCHANGED <<input, phase, clock, log>>

ProfileNext ==
    \/ InitializeFromConfig
    \/ SwitchToProfile
    \/ SwitchToProfileByName
    \/ SwitchToPage
    \/ NextPage
    \/ PreviousPage

ProfileSpec ==
    ProfileInit /\ [][ProfileNext]_vars

(***************************************************************************)
(* Vocabulary of the navigation properties.                                *)
(***************************************************************************)
PageCount(state) ==
    input[state.current_profile_index + 1].pages

ValidPage(state) ==
    /\ state.current_profile_index < Len(input)
    /\ state.current_page_index < PageCount(state)

RECURSIVE NextPages(_, _)
NextPages(state, k) ==
    IF k = 0 THEN state ELSE NextPages(next_page(state, input).state, k - 1)

MovesTo(outcome, page_index) ==
    /\ outcome.returned = NavOk(PageInfo(page_index))
    /\ outcome.state.current_page_index = page_index

\* C29: page navigation in a profile of n >= 1 pages is circular.  From a
\* valid current page i, next_page moves to (i + 1) mod n and previous_page
\* to (i - 1) mod n: from the last page next_page gives page 0, from page 0
\* previous_page gives the last page, next_page then previous_page (and the
\* reverse) returns to i, and n next_page calls in a row return to i.  The
\* call the manager made last obeyed the same rule.
C29_PageNavigationCircular ==
    /\ (phase = "ready" /\ ValidPage(stack)) =>
         LET i == stack.current_page_index
             n == PageCount(stack)
             forward == next_page(stack, input)
             backward == previous_page(stack, input)
         IN  /\ n >= 1
             /\ MovesTo(forward, (i + 1) % n)
             /\ MovesTo(backward, (i + n - 1) % n)
             /\ i = n - 1 => MovesTo(forward, 0)
             /\ i = 0 => MovesTo(backward, n - 1)
             /\ MovesTo(previous_page(forward.state, input), i)
             /\ MovesTo(next_page(backward.state, input), i)
             /\ NextPages(stack, n).current_page_index = i
             /\ NextPages(stack, n).current_profile_index = stack.current_profile_index
    /\ (ret.op = "next_page" /\ ValidPage(ret.before)) =>
         /\ MovesTo(NavOutcome(stack, ret.returned),
                    (ret.before.current_page_index + 1) % PageCount(ret.before))
         /\ stack.current_profile_index = ret.before.current_profile_index
    /\ (ret.op = "previous_page" /\ ValidPage(ret.before)) =>
         /\ MovesTo(NavOutcome(stack, ret.returned),
                    (ret.before.current_page_index + PageCount(ret.before) - 1)
                        % PageCount(ret.before))
         /\ stack.current_profile_index = ret.before.current_profile_index

\* next_page was called on the last page of a profile of MaxPages pages, in
\* the second profile, and the manager is on page 0.
C29_Witness ==
    /\ phase = "ready"
    /\ ret.op = "next_page"
    /\ ret.before.current_profile_index = 1
    /\ PageCount(ret.before) = MaxPages
    /\ ret.before.current_page_index = MaxPages - 1
    /\ stack.current_page_index = 0
    /\ ret.returned.tag = "Ok"

(***************************************************************************)
(* The last active page of a profile.                                      *)
(***************************************************************************)
\* The watched profile was switched to, by index or by name.
SwitchedToProfile ==
    /\ phase = "ready"
    /\ ret.op \in {"switch_to_profile", "switch_to_profile_by_name"}
    /\ ret.returned.tag = "Ok"
    /\ ret.index = windows.profile

RememberedPage ==
    windows.page

Restored ==
    /\ stack.current_profile_index = ret.index
    /\ stack.current_page_index = RememberedPage[1]
    /\ ret.returned.info.current_page_index = RememberedPage[1]

UniqueName(profile_index) ==
    \A i \in 1..Len(input) :
        input[i].name = input[profile_index + 1].name => i = profile_index + 1

\* C30: the manager remembers the last active page of each profile.  After
\* switch_to_page(p) succeeded in profile A, and whatever switches to other
\* profiles and page changes in those profiles followed, switch_to_profile(A)
\* makes p the current page again and reports current_page_index = p.
C30_LastActivePageRestored ==
    (SwitchedToProfile /\ RememberedPage # None) => Restored

\* What the code guarantees: the page is restored for a profile whose name
\* no other profile of the configuration bears; a page change made in a
\* profile that shares A's name replaces A's entry.
C30_RestoredForUniqueNames ==
    (SwitchedToProfile /\ RememberedPage # None /\ UniqueName(ret.index)) => Restored

\* switch_to_profile(0) after page 1 was chosen in profile 0 and page 0 in
\* the second profile, which bears the same name: profile 0 comes back on
\* page 0.
C30_Witness ==
    /\ SwitchedToProfile
    /\ ret.op = "switch_to_profile"
    /\ ret.index = 0
    /\ ret.before.current_profile_index = 1
    /\ ret.before.current_page_index = 0
    /\ input[1].name = input[2].name
    /\ RememberedPage = Some(1)
    /\ stack.current_page_index = 0
    /\ ret.returned.info.current_page_index = 0


(***************************************************************************)
(* The navigation state under every method of ProfileManager that changes  *)
(* it, reset included, with a fixed configuration.  input is the           *)
(* configuration, stack the ProfileState, ret the method called last and   *)
(* what it returned.                                                       *)
(***************************************************************************)
reset(state) ==
    ProfileState_default

Method(op, returned) ==
    [op |-> op, returned |-> returned]

Called(op, outcome) ==
    /\ stack' = outcome.state
    /\ ret' = Method(op, outcome.returned)
    /\ UNCHANGED <<input, windows, phase, clock, log>>

NavigationInit ==
    /\ input \in NavConfigs
    /\ windows = TRUE
    /\ phase = "new"
    /\ stack = ProfileState_default
    /\ ret = Method("new", NavOk(NoInfo))
    /\ clock = 0
    /\ log = <<>>

NavInitialize ==
    /\ phase = "new"
    /\ stack' = initialize_from_config(stack, input)
    /\ ret' = Method("initialize_from_config", NavOk(NoInfo))
    /\ phase' = "ready"
    /\ UNCHANGED <<input, windows, clock, log>>

NavSwitchToProfile ==
    /\ phase = "ready"
    /\ \E profile_index \in 0..Len(input) :
         Called("switch_to_profile", switch_to_profile(stack, profile_index, input))

NavSwitchToProfileByName ==
    /\ phase = "ready"
    /\ \E profile_name \in ProfileNames :
         Called("switch_to_profile_by_name",
                switch_to_profile_by_name(stack, profile_name, input))

NavSwitchToPage ==
    /\ phase = "ready"
    /\ \E page_index \in 0..MaxPages :
         Called("switch_to_page", switch_to_page(stack, page_index, input))

NavNextPage ==
    /\ phase = "ready"
    /\ Called("next_page", next_page(stack, input))

NavPreviousPage ==
    /\ phase = "ready"
    /\ Called("previous_page", previous_page(stack, input))

NavReset ==
    /\ phase = "ready"
    /\ Called("reset", NavOutcome(reset(stack), NavOk(NoInfo)))

NavigationNext ==
    \/ NavInitialize
    \/ NavSwitchToProfile
    \/ NavSwitchToProfileByName
    \/ NavSwitchToPage
    \/ NavNextPage
    \/ NavPreviousPage
    \/ NavReset

NavigationSpec ==
    NavigationInit /\ [][NavigationNext]_vars

\* The indices are within the configuration.
InBounds(state, config) ==
    /\ state.current_profile_index < Len(config)
    /\ state.current_page_index < config[state.current_profile_index + 1].pages

\* C31: with a fixed configuration whose profiles all have a page, after
\* initialize_from_config and any sequence of switch_to_profile,
\* switch_to_profile_by_name, switch_to_page, next_page, previous_page and
\* reset calls, failing ones included, current_profile_index is below the
\* number of profiles and current_page_index below the number of pages of
\* the current profile; and a call that returns an error leaves the
\* navigation state as it was.
C31_IndicesStayInBounds ==
    /\ [](phase = "ready" => InBounds(stack, input))
    /\ [][ret'.returned.tag = "Err" => stack' = stack]_vars

\* After a reset, a call failed (a page or profile out of range) in the
\* second profile, on a page other than the first.
C31_Witness ==
    /\ phase = "ready"
    /\ ret.returned.tag = "Err"
    /\ ret.op = "switch_to_page"
    /\ stack.current_profile_index = 1
    /\ stack.current_page_index = MaxPages - 1
    /\ DOMAIN stack.last_active_pages # {input[i].name : i \in 1..Len(input)}


(***************************************************************************)
(* Expansion token by token, and termination of the loop.                  *)
(***************************************************************************)
\* The string from position `from` on, each %NAME% token (paired left to
\* right) replaced by the value of NAME when NAME is defined and kept as it
\* is otherwise; the text between tokens is kept.
RECURSIVE TokenByToken(_, _, _)
TokenByToken(string, env, from) ==
    LET start == find(string, "%", from)
        end == IF start = 0 THEN 0 ELSE find(string, "%", start + 1)
        name == SubSeq(string, start + 1, end - 1)
    IN  IF start = 0 \/ end = 0 THEN SubSeq(string, from, Len(string))
        ELSE SubSeq(string, from, start - 1)
                \o (IF name \in DOMAIN env THEN env[name] ELSE SubSeq(string, start, end))
                \o TokenByToken(string, env, end + 1)

\* The same, but everything from the first undefined token on is kept.
RECURSIVE UpToFirstUndefined(_, _, _)
UpToFirstUndefined(string, env, from) ==
    LET start == find(string, "%", from)
        end == IF start = 0 THEN 0 ELSE find(string, "%", start + 1)
        name == SubSeq(string, start + 1, end - 1)
    IN  IF start = 0 \/ end = 0 \/ name \notin DOMAIN env
        THEN SubSeq(string, from, Len(string))
        ELSE SubSeq(string, from, start - 1) \o env[name]
                \o UpToFirstUndefined(string, env, end + 1)

\* C32: expansion works token by token.  Every %NAME% token of the input
\* whose NAME is defined is replaced by the value, every token whose NAME is
\* undefined stays verbatim, whatever tokens stand before or after it, and
\* the text outside tokens is unchanged.
C32_TokenByToken ==
    ExpandReturned => ret.value = TokenByToken(input.string, input.env, 1)

\* What the code does when no value holds a percent sign: tokens are
\* replaced from the left up to the first undefined token, and from there
\* on the string is returned as it was, defined tokens included.
C32_ExpandsUpToFirstUndefined ==
    (ExpandReturned /\ PlainValues(input.env)) =>
        ret.value = UpToFirstUndefined(input.string, input.env, 1)

\* The defined token %V% after the undefined token %U% is returned
\* unexpanded although V has the plain value xx.
C32_Witness ==
    /\ ExpandReturned
    /\ input.string = <<"%", "U", "%", "%", "V", "%">>
    /\ input.env[<<"V">>] = <<"x", "x">>
    /\ ret.value = input.string

\* The loop of expand_environment_variables has no await and no blocking
\* call: the thread that runs it goes on to the next iteration, which is
\* weak fairness of the steps of the function.
ExpandLiveSpec ==
    ExpandInit /\ [][ExpandNext]_vars /\ WF_vars(ExpandNext)

\* C33: expand_environment_variables terminates for every input string and
\* every environment, values that hold '%' or a %NAME% token (the
\* variable's own token among them) included.
C33_ExpansionTerminates ==
    <>(phase = "done")

\* What the code guarantees: the call returns when the value of V is not
\* V's own token; the values xx, x% and %V are among these.
C33_TerminatesUnlessSelfReference ==
    (phase = "start" /\ input.env[<<"V">>] # <<"%", "V", "%">>) ~> (phase = "done")

\* The loop has replaced %V% by its value %V% at least once and faces the
\* same string again.
C33_Witness ==
    /\ phase = "loop"
    /\ clock = 1
    /\ stack[1] = input.string
    /\ input.string = <<"%", "V", "%">>
    /\ input.env[<<"V">>] = <<"%", "V", "%">>


(***************************************************************************)
(* The undo history of DragDropService (modules/drag_drop.rs).  An         *)
(* UndoOperation is kept as a number that stands for its operation_id;     *)
(* undo_history is the Vec, oldest entry first.                            *)
(***************************************************************************)
max_undo_history ==
    50

MaxEvictions ==
    2

\* Vec::remove(0) and Vec::pop on a non-empty vector.
remove_first(history) ==
    SubSeq(history, 2, Len(history))

remove_last(history) ==
    SubSeq(history, 1, Len(history) - 1)

\* An add that, over the limit, drops the entry just pushed.
add_undo_operation_drops_newest(history, operation) ==
    IF Len(Append(history, operation)) > max_undo_history
    THEN remove_last(Append(history, operation))
    ELSE Append(history, operation)

\* push, then remove(0) when the length is over max_undo_history.
add_undo_operation(history, operation) ==
    IF Len(Append(history, operation)) > max_undo_history
    THEN remove_first(Append(history, operation))
    ELSE Append(history, operation)

get_last_undo_operation(history) ==
    IF Len(history) = 0 THEN None ELSE Some(history[Len(history)])

\* pop_undo_operation: the history left and the operation returned.
pop_undo_operation(history) ==
    [history |-> IF Len(history) = 0 THEN history ELSE remove_last(history),
     returned |-> get_last_undo_operation(history)]

clear_undo_history(history) ==
    <<>>

get_undo_stats(history) ==
    <<Len(history), max_undo_history>>

(***************************************************************************)
(* The calls as a state machine (UndoSpec).  stack is undo_history, ret    *)
(* the last call: its name, the history before it, the operation passed    *)
(* or returned.  The operation a caller adds bears the number after the    *)
(* newest entry's (1 on an empty history), so the entries of a history     *)
(* differ from one another and a newer entry bears a larger number.  The   *)
(* number of evictions is bounded by MaxEvictions.                         *)
(***************************************************************************)
UndoCall(op, before, operation) ==
    [op |-> op, before |-> before, operation |-> operation]

NewOperation(history) ==
    IF Len(history) = 0 THEN 1 ELSE history[Len(history)] + 1

UndoInit ==
    /\ input = max_undo_history
    /\ windows = TRUE
    /\ phase = "undo"
    /\ stack = <<>>
    /\ ret = UndoCall("new", <<>>, None)
    /\ clock = 0
    /\ log = <<>>

AddUndoOperation ==
    /\ phase = "undo"
    /\ Len(stack) = max_undo_history => stack[1] <= MaxEvictions
    /\ stack' = add_undo_operation(stack, NewOperation(stack))
    /\ ret' = UndoCall("add_undo_operation", stack, Some(NewOperation(stack)))
    /\ UNCHANGED <<input, windows, phase, clock, log>>

GetLastUndoOperation ==
    /\ phase = "undo"
    /\ ret' = UndoCall("get_last_undo_operation", stack, get_last_undo_operation(stack))
    /\ UNCHANGED <<input, windows, phase, stack, clock, log>>

PopUndoOperation ==
    /\ phase = "undo"
    /\ stack' = pop_undo_operation(stack).history
    /\ ret' = UndoCall("pop_undo_operation", stack, pop_undo_operation(stack).returned)
    /\ UNCHANGED <<input, windows, phase, clock, log>>

ClearUndoHistory ==
    /\ phase = "undo"
    /\ stack' = clear_undo_history(stack)
    /\ ret' = UndoCall("clear_undo_history", stack, None)
    /\ UNCHANGED <<input, windows, phase, clock, log>>

UndoNext ==
    \/ AddUndoOperation
    \/ GetLastUndoOperation
    \/ PopUndoOperation
    \/ ClearUndoHistory

UndoSpec ==
    UndoInit /\ [][UndoNext]_vars

(***************************************************************************)
(* Properties of the undo history.                                         *)
(***************************************************************************)
Entries(history) ==
    {history[i] : i \in 1..Len(history)}

\* The entry of a non-empty history that was added last: entries are
\* numbered in the order of their addition.
MostRecent(history) ==
    CHOOSE operation \in Entries(history) : \A other \in Entries(history) : other <= operation

\* The entries in the order they were added, without the given one.
Without(history, operation) ==
    SelectSeq(history, LAMBDA entry : entry # operation)

Oldest(history) ==
    CHOOSE operation \in Entries(history) : \A other \in Entries(history) : operation <= other

\* C34: the undo history is a bounded stack.  Its length never exceeds
\* max_undo_history (50) and get_undo_stats reports it; an add to a history
\* that is not full appends, an add to a full history evicts exactly the
\* oldest entry; pop_undo_operation removes and returns the entry added
\* most recently among those left, and returns None on an empty history,
\* which stays empty; get_last_undo_operation returns that same entry and
\* leaves the history as it is; clear_undo_history empties it.
C34_BoundedUndoStack ==
    /\ phase = "undo" => /\ Len(stack) <= 50
                         /\ get_undo_stats(stack) = <<Len(stack), 50>>
                         /\ Cardinality(Entries(stack)) = Len(stack)
    /\ ret.op = "add_undo_operation" =>
         /\ stack[Len(stack)] = ret.operation[1]
         /\ IF Len(ret.before) < 50
            THEN remove_last(stack) = ret.before
            ELSE /\ Len(stack) = 50
                 /\ remove_last(stack) = Without(ret.before, Oldest(ret.before))
    /\ ret.op = "pop_undo_operation" =>
         IF Len(ret.before) = 0
         THEN ret.operation = None /\ stack = <<>>
         ELSE /\ ret.operation = Some(MostRecent(ret.before))
              /\ stack = Without(ret.before, MostRecent(ret.before))
    /\ ret.op = "get_last_undo_operation" =>
         /\ stack = ret.before
         /\ ret.operation = pop_undo_operation(stack).returned
         /\ Len(stack) > 0 => ret.operation = Some(MostRecent(stack))
    /\ ret.op = "clear_undo_history" => stack = <<>>

\* The second eviction: a full history that begins with entry 2 takes
\* entry 52 and then begins with entry 3.
C34_Witness ==
    /\ ret.op = "add_undo_operation"
    /\ Len(ret.before) = 50
    /\ Len(stack) = 50
    /\ ret.before[1] = 2
    /\ stack[1] = 3
    /\ stack[50] = 52


(***************************************************************************)
(* Placement of generated buttons (modules/drag_drop.rs,                   *)
(* generate_buttons_from_files and find_available_positions).  A request   *)
(* is kept as the grid size, the set of positions of the existing buttons, *)
(* the target placed_at and the number of files; a generated button as its  *)
(* placed_at.  Rows and columns are counted from 1, as the grid scan of the *)
(* code does.                                                              *)
(***************************************************************************)
MaxGrid ==
    2

MaxFiles ==
    3

Position(row, col) ==
    [row |-> row, col |-> col]

ButtonGenerationRequest(files, target_position, grid_rows, grid_cols, existing_buttons) ==
    [op |-> "generate_buttons_from_files", files |-> files,
     target_position |-> target_position, grid_rows |-> grid_rows,
     grid_cols |-> grid_cols, existing_buttons |-> existing_buttons]

ButtonGenerationResult(generated_buttons, placement_positions, conflicts, errors) ==
    [generated_buttons |-> generated_buttons, placement_positions |-> placement_positions,
     conflicts |-> conflicts, errors |-> errors]

Range(seq) ==
    {seq[i] : i \in 1..Len(seq)}

\* The target is taken when it is not beyond the last row and column and
\* not occupied.
target_accepted(request) ==
    /\ request.target_position # None
    /\ request.target_position[1].row <= request.grid_rows
    /\ request.target_position[1].col <= request.grid_cols
    /\ request.target_position[1] \notin request.existing_buttons

\* right, down, left, up; u32::saturating_sub at the edge.
adjacent(cell) ==
    <<Position(cell.row, cell.col + 1),
      Position(cell.row + 1, cell.col),
      Position(cell.row, saturating_sub(cell.col, 1)),
      Position(saturating_sub(cell.row, 1), cell.col)>>

adjacent_accepted(request, visited, cell) ==
    /\ cell.row > 0 /\ cell.row <= request.grid_rows
    /\ cell.col > 0 /\ cell.col <= request.grid_cols
    /\ cell \notin request.existing_buttons
    /\ cell \notin visited

\* The cells of the grid in the order of the two nested for loops.
Cells(rows, cols) ==
    [n \in 1..(rows * cols) |-> Position(((n - 1) \div cols) + 1, ((n - 1) % cols) + 1)]

\* The grid scan from the n-th cell on: a free cell not yet in the list is
\* pushed, and the function returns as soon as the list is long enough.
RECURSIVE scan_grid(_, _, _, _)
scan_grid(available, request, cells, n) ==
    IF n > Len(cells) THEN available
    ELSE IF cells[n] \notin request.existing_buttons /\ cells[n] \notin Range(available)
         THEN IF Len(available) + 1 >= request.files
              THEN Append(available, cells[n])
              ELSE scan_grid(Append(available, cells[n]), request, cells, n + 1)
         ELSE scan_grid(available, request, cells, n + 1)

\* The locals of find_available_positions.
Search(available, search_positions, next_search, visited, cell, side) ==
    [available |-> available, search_positions |-> search_positions,
     next_search |-> next_search, visited |-> visited, cell |-> cell, side |-> side]

\* The loop over the files: the indices (from 1) of the files that get a
\* button, and the error entries, both in file order.  failed is the set of
\* files whose create_button_from_file returns an error.
PlacedFiles(files, available, failed) ==
    SelectSeq([i \in 1..files |-> i], LAMBDA i : i <= Len(available) /\ i \notin failed)

FileError(file, text) ==
    [file |-> file, text |-> text]

FileErrors(files, available, failed) ==
    LET unplaced == SelectSeq([i \in 1..files |-> i],
                              LAMBDA i : i > Len(available) \/ i \in failed)
    IN  [j \in 1..Len(unplaced) |->
            FileError(unplaced[j],
                      IF unplaced[j] > Len(available)
                      THEN "No available placed_at for file"
                      ELSE "Failed to create button")]

generate_buttons(request, available, failed) ==
    LET placed == PlacedFiles(request.files, available, failed)
        positions == [j \in 1..Len(placed) |-> available[placed[j]]]
    IN  ButtonGenerationResult(
            positions, positions,
            SelectSeq(positions, LAMBDA placed_at : placed_at \in request.existing_buttons),
            FileErrors(request.files, available, failed))

(***************************************************************************)
(* One call of generate_buttons_from_files as a state machine (DropSpec).  *)
(* input is the request, stack the locals of find_available_positions,     *)
(* phase the placed_at in the code, ret the result returned.                *)
(***************************************************************************)
GridSizes ==
    1..MaxGrid

TargetPositions(rows, cols) ==
    {None} \cup { Some(Position(row, col)) : row \in 0..(rows + 1), col \in 0..(cols + 1) }

NoResultYet ==
    ButtonGenerationResult(<<>>, <<>>, <<>>, <<>>)

\* Every request on a grid of up to MaxGrid rows and columns: any set of
\* occupied cells, any target or none, up to MaxFiles files.
DropInit ==
    /\ \E rows \in GridSizes, cols \in GridSizes, files \in 0..MaxFiles :
         \E target \in TargetPositions(rows, cols),
            existing \in SUBSET Range(Cells(rows, cols)) :
              input = ButtonGenerationRequest(files, target, rows, cols, existing)
    /\ windows = TRUE
    /\ phase = "target"
    /\ stack = Search(<<>>, <<>>, <<>>, {}, 1, 1)
    /\ ret = NoResultYet
    /\ clock = 0
    /\ log = <<>>

\* The target is specified and accepted: it is the first placed_at.
TakeTarget ==
    /\ phase = "target"
    /\ target_accepted(input)
    /\ stack' = Search(<<input.target_position[1]>>, <<input.target_position[1]>>,
                       <<>>, {input.target_position[1]}, 1, 1)
    /\ phase' = "while"
    /\ UNCHANGED <<input, windows, ret, clock, log>>

\* No target, or a target that is not accepted.
SkipTarget ==
    /\ phase = "target"
    /\ ~target_accepted(input)
    /\ phase' = "scan"
    /\ UNCHANGED <<input, windows, stack, ret, clock, log>>

\* The while condition holds: the next round over search_positions begins.
SearchRound ==
    /\ phase = "while"
    /\ Len(stack.available) < input.files
    /\ stack.search_positions # <<>>
    /\ stack' = [stack EXCEPT !.next_search = <<>>, !.cell = 1, !.side = 1]
    /\ phase' = "adjacent"
    /\ UNCHANGED <<input, windows, ret, clock, log>>

\* The while condition fails.
SearchEnd ==
    /\ phase = "while"
    /\ ~(Len(stack.available) < input.files /\ stack.search_positions # <<>>)
    /\ phase' = "scan"
    /\ UNCHANGED <<input, windows, stack, ret, clock, log>>

\* One adjacent placed_at of one search placed_at is examined.  Both for
\* loops are left when the list is long enough; at the end of the outer
\* loop search_positions becomes next_search.
ExamineAdjacent ==
    /\ phase = "adjacent"
    /\ LET candidate == adjacent(stack.search_positions[stack.cell])[stack.side]
           taken == adjacent_accepted(input, stack.visited, candidate)
           pushed == IF taken
                     THEN [stack EXCEPT !.available = Append(@, candidate),
                                        !.visited = @ \cup {candidate},
                                        !.next_search = Append(@, candidate)]
                     ELSE stack
           enough == taken /\ Len(pushed.available) >= input.files
       IN  IF enough \/ (stack.side = 4 /\ stack.cell = Len(stack.search_positions))
           THEN /\ stack' = [pushed EXCEPT !.search_positions = pushed.next_search]
                /\ phase' = "while"
           ELSE /\ stack' = IF stack.side < 4
                            THEN [pushed EXCEPT !.side = @ + 1]
                            ELSE [pushed EXCEPT !.cell = @ + 1, !.side = 1]
                /\ UNCHANGED phase
    /\ UNCHANGED <<input, windows, ret, clock, log>>

\* The scan of the whole grid, when positions are still missing.
ScanGrid ==
    /\ phase = "scan"
    /\ stack' = [stack EXCEPT !.available =
                    IF Len(@) < input.files
                    THEN scan_grid(@, input, Cells(input.grid_rows, input.grid_cols), 1)
                    ELSE @]
    /\ phase' = "generate"
    /\ UNCHANGED <<input, windows, ret, clock, log>>

\* The loop over the files and the conflict check; create_button_from_file
\* fails for the files of `failed` (its `?` on current_dir).
GenerateButtons ==
    /\ phase = "generate"
    /\ \E failed \in SUBSET (1..input.files) :
         ret' = generate_buttons(input, stack.available, failed)
    /\ phase' = "done"
    /\ UNCHANGED <<input, windows, stack, clock, log>>

DropNext ==
    \/ TakeTarget
    \/ SkipTarget
    \/ SearchRound
    \/ SearchEnd
    \/ ExamineAdjacent
    \/ ScanGrid
    \/ GenerateButtons

DropSpec ==
    DropInit /\ [][DropNext]_vars

(***************************************************************************)
(* Properties of the placement.                                            *)
(***************************************************************************)
DropReturned ==
    phase = "done" /\ input.op = "generate_buttons_from_files"

InGrid(placed_at) ==
    /\ 1 <= placed_at.row /\ placed_at.row <= input.grid_rows
    /\ 1 <= placed_at.col /\ placed_at.col <= input.grid_cols

Distinct(seq) ==
    \A i \in 1..Len(seq), j \in 1..Len(seq) : seq[i] = seq[j] => i = j

FreeCells ==
    {cell \in Range(Cells(input.grid_rows, input.grid_cols)) : cell \notin input.existing_buttons}

\* Every file is accounted for: a button, or an error entry and no button.
FilesAccounted ==
    /\ Len(ret.generated_buttons) + Len(ret.errors) = input.files
    /\ ret.placement_positions = ret.generated_buttons
    /\ \A file \in 1..input.files :
         file > Len(stack.available) =>
            \E e \in 1..Len(ret.errors) :
                ret.errors[e] = FileError(file, "No available placed_at for file")

\* C35: every placed_at assigned to a generated button lies inside the grid
\* (1 <= row <= grid_rows, 1 <= col <= grid_cols), is not occupied by an
\* existing button and differs from every other generated button's, for
\* every target placed_at, row or column 0 and positions outside the grid
\* included; so the conflicts list is empty, and every file without an
\* available placed_at yields an error entry and no button.
C35_PlacedInsideGrid ==
    DropReturned =>
        /\ \A placed_at \in Range(ret.placement_positions) :
              InGrid(placed_at) /\ placed_at \notin input.existing_buttons
        /\ Distinct(ret.placement_positions)
        /\ ret.conflicts = <<>>
        /\ FilesAccounted

\* What the code guarantees: positions are free and distinct, not beyond
\* the last row and column, conflicts is empty and every file is accounted
\* for; a placed_at has row and column 1 or more unless it is the target
\* placed_at itself, which is only compared with the upper limits.
C35_PlacedOnFreeCells ==
    DropReturned =>
        /\ \A placed_at \in Range(ret.placement_positions) :
              /\ placed_at.row <= input.grid_rows
              /\ placed_at.col <= input.grid_cols
              /\ placed_at \notin input.existing_buttons
              /\ InGrid(placed_at) \/ Some(placed_at) = input.target_position
        /\ Distinct(ret.placement_positions)
        /\ ret.conflicts = <<>>
        /\ FilesAccounted

\* Two files dropped on target row 0 of a free 2 x 2 grid: the first button
\* is placed on row 0, outside the grid, the second below it.
C35_Witness ==
    /\ DropReturned
    /\ input.target_position = Some(Position(0, 1))
    /\ input.grid_rows = 2 /\ input.grid_cols = 2
    /\ input.existing_buttons = {}
    /\ input.files = 2
    /\ ret.placement_positions = <<Position(0, 1), Position(1, 1)>>


(***************************************************************************)
(* Global hotkeys (modules/hotkey.rs, and the setup in lib.rs).  A hotkey  *)
(* string is kept as its parts between the '+' signs, the registry         *)
(* (registered_hotkeys) as a function from ids to actions.  The message    *)
(* loop thread is the only caller of RegisterHotKey for the hotkeys of the *)
(* registry; its result is the operating system's choice.                  *)
(***************************************************************************)
MaxHotkeys ==
    3

parse_key_code(key) ==
    IF to_lowercase(key) \in {"q", "f11", "f12", "escape", "space"}
    THEN Ok(to_lowercase(key))
    ELSE Err("Unknown key")

\* The last part is the key, the parts before it are modifiers.
parse_hotkey_string(hotkey_str) ==
    IF \E i \in 1..(Len(hotkey_str) - 1) :
          to_lowercase(hotkey_str[i]) \notin
              {"ctrl", "control", "alt", "shift", "win", "windows", "cmd"}
    THEN Err("Unknown modifier")
    ELSE parse_key_code(hotkey_str[Len(hotkey_str)])

\* Result<u32> or Result<()>, the unit kept as id 0.
Registered(id) ==
    [tag |-> "Ok", id |-> id, error |-> ""]

Refused(error) ==
    [tag |-> "Err", id |-> 0, error |-> error]

HotkeyStrings ==
    {<<"Ctrl", "Alt", "Q">>, <<"Alt", "F12">>, <<"Hyper", "Q">>, <<"Ctrl", "Fn">>}

HotkeyActions ==
    {"toggle_overlay", "switch_profile:A"}

\* windows: what the operating system was asked and what it holds.
System(attempted, registered) ==
    [attempted |-> attempted, registered |-> registered]

\* ret: the thread's list of hotkeys still to register, the last WM_HOTKEY
\* id and callback argument, and the value the last method returned.
HotkeyCalls(to_register, pressed, called, returned) ==
    [to_register |-> to_register, pressed |-> pressed, called |-> called,
     returned |-> returned]

\* input is next_id, stack the registry, phase the state of the message
\* loop thread, clock the parity of message_count.
HotkeyInit ==
    /\ input = 1
    /\ stack = << >>
    /\ windows = System({}, {})
    /\ phase = "setup"
    /\ ret = HotkeyCalls({}, None, None, None)
    /\ clock = 0
    /\ log = <<>>

\* register_hotkey: parse, take the next id, insert into the registry.
\* Called by the setup for the hotkeys of the configuration and by the
\* register_hotkey command at any later time.
RegisterHotkey ==
    /\ input <= MaxHotkeys
    /\ \E hotkey_str \in HotkeyStrings, action \in HotkeyActions :
         LET parsed == parse_hotkey_string(hotkey_str)
         IN  IF parsed.tag = "Err"
             THEN /\ ret' = [ret EXCEPT !.returned = Some(Refused(parsed.error))]
                  /\ UNCHANGED <<input, stack>>
             ELSE /\ input' = input + 1
                  /\ stack' = [id \in DOMAIN stack \cup {input} |->
                                  IF id = input THEN action ELSE stack[id]]
                  /\ ret' = [ret EXCEPT !.returned = Some(Registered(input))]
    /\ UNCHANGED <<windows, phase, clock, log>>

\* unregister_hotkey (a command, so after the setup): the id leaves the
\* registry, then UnregisterHotKey is called on the caller's thread.
UnregisterHotkey ==
    /\ phase # "setup"
    /\ \E id \in 1..MaxHotkeys :
         IF id \notin DOMAIN stack
         THEN /\ ret' = [ret EXCEPT !.returned = Some(Refused("not found"))]
              /\ UNCHANGED <<stack, windows>>
         ELSE /\ stack' = [other \in DOMAIN stack \ {id} |-> stack[other]]
              /\ \E freed \in BOOLEAN :
                   /\ freed => id \in windows.registered
                   /\ windows' = IF freed
                                 THEN [windows EXCEPT !.registered = @ \ {id}]
                                 ELSE windows
                   /\ ret' = [ret EXCEPT !.returned =
                                 Some(IF freed THEN Registered(0) ELSE Refused("Failed to unregister"))]
    /\ UNCHANGED <<input, phase, clock, log>>

\* start_message_loop, called once at the end of the setup with the
\* callback set: the thread is spawned.
StartMessageLoop ==
    /\ phase = "setup"
    /\ phase' = "spawned"
    /\ ret' = [ret EXCEPT !.returned = Some(Registered(0))]
    /\ UNCHANGED <<input, windows, stack, clock, log>>

\* The thread clones the values of the registry.
ThreadCollect ==
    /\ phase = "spawned"
    /\ ret' = [ret EXCEPT !.to_register = DOMAIN stack]
    /\ phase' = "registering"
    /\ UNCHANGED <<input, windows, stack, clock, log>>

\* RegisterHotKey for one hotkey of the list; a refusal is logged.
ThreadRegister ==
    /\ phase = "registering"
    /\ \E id \in ret.to_register, result \in BOOLEAN :
         /\ windows' = System(windows.attempted \cup {id},
                              IF result THEN windows.registered \cup {id}
                              ELSE windows.registered)
         /\ ret' = [ret EXCEPT !.to_register = @ \ {id}]
    /\ UNCHANGED <<input, stack, phase, clock, log>>

\* The list is done: windows_message_loop begins.
ThreadEnterLoop ==
    /\ phase = "registering"
    /\ ret.to_register = {}
    /\ phase' = "loop"
    /\ UNCHANGED <<input, windows, stack, ret, clock, log>>

\* GetMessageW returns WM_HOTKEY for a hotkey the system holds for this
\* thread: the callback is called with the action found in the registry.
HotkeyMessage ==
    /\ phase = "loop"
    /\ \E id \in windows.registered :
         ret' = [ret EXCEPT !.pressed = Some(id),
                            !.called = IF id \in DOMAIN stack
                                       THEN Some(stack[id]) ELSE None]
    /\ clock' = (clock + 1) % 2
    /\ UNCHANGED <<input, windows, stack, phase, log>>

\* GetMessageW returns another message (the 5 second timer's WM_TIMER).
OtherMessage ==
    /\ phase = "loop"
    /\ clock' = (clock + 1) % 2
    /\ UNCHANGED <<input, windows, stack, phase, ret, log>>

HotkeyNext ==
    \/ RegisterHotkey
    \/ UnregisterHotkey
    \/ StartMessageLoop
    \/ ThreadCollect
    \/ ThreadRegister
    \/ ThreadEnterLoop
    \/ HotkeyMessage
    \/ OtherMessage

HotkeySpec ==
    HotkeyInit /\ [][HotkeyNext]_vars

\* The setup runs to its end, the spawned thread runs, and the timer keeps
\* the message loop turning.
HotkeyLiveSpec ==
    /\ HotkeyInit /\ [][HotkeyNext]_vars
    /\ WF_vars(StartMessageLoop)
    /\ WF_vars(ThreadCollect)
    /\ WF_vars(ThreadRegister)
    /\ WF_vars(ThreadEnterLoop)
    /\ WF_vars(OtherMessage)

(***************************************************************************)
(* Properties of the registration.                                         *)
(***************************************************************************)
Accepted(id) ==
    id \in DOMAIN stack

HandedToSystem(id) ==
    id \in windows.attempted

\* WM_HOTKEY for a hotkey of the registry calls the callback with its action.
PressInvokesAction ==
    [][\A id \in DOMAIN stack :
          ret'.pressed = Some(id) /\ clock' # clock /\ ret' # ret
              => ret'.called = Some(stack[id])]_vars

\* C36: every hotkey accepted by register_hotkey (id returned, hotkey in
\* the registry) is subsequently registered with the operating system in
\* the message loop thread, whether it was queued before start_message_loop
\* or after the message loop has started; pressing it invokes the callback
\* with its action.
C36_AcceptedHotkeyRegistered ==
    /\ \A id \in 1..MaxHotkeys :
          Accepted(id) ~> (HandedToSystem(id) \/ ~Accepted(id))
    /\ PressInvokesAction

\* What the code guarantees: a hotkey accepted before the thread has cloned
\* the registry is handed to RegisterHotKey by the thread (or unregistered
\* first); one accepted later is only stored.
C36_QueuedBeforeLoopRegistered ==
    /\ \A id \in 1..MaxHotkeys :
          (Accepted(id) /\ phase \in {"setup", "spawned"})
              ~> (HandedToSystem(id) \/ ~Accepted(id))
    /\ PressInvokesAction

\* A hotkey accepted while the message loop runs: it is in the registry and
\* RegisterHotKey was never called for it, while an earlier one is held by
\* the system and was pressed.
C36_Witness ==
    /\ phase = "loop"
    /\ Accepted(1) /\ Accepted(2)
    /\ windows = System({1}, {1})
    /\ ret.returned = Some(Registered(2))
    /\ ret.pressed = Some(1)
    /\ ret.called = Some(stack[1])


(***************************************************************************)
(* Locks (lib.rs, modules/hotkey.rs, modules/window.rs).  A code path is   *)
(* kept as the sequence of its lock and unlock operations, in the order    *)
(* the code performs them: a guard is released at the end of its block     *)
(* and the guards of one block in the reverse order of their declaration.  *)
(***************************************************************************)
MaxWorkers ==
    2

Acq(lock) ==
    [op |-> "lock", lock |-> lock]

Rel(lock) ==
    [op |-> "unlock", lock |-> lock]

MutexNames ==
    {"hotkey_service", "window_manager", "registered_hotkeys", "next_id",
     "profile_manager", "config_manager", "is_overlay_visible", "overlay_config"}

\* get_profiles .. get_navigation_context: profile_manager, then
\* config_manager, both held to the end of the command.
navigation_command ==
    <<Acq("profile_manager"), Acq("config_manager"),
      Rel("config_manager"), Rel("profile_manager")>>

\* get_config, save_config.
config_command ==
    <<Acq("config_manager"), Rel("config_manager")>>

\* overlay_config is taken and released within one statement or block, by
\* calculate_and_update_window_size and by get_overlay_config
\* (configure_overlay_window, create_overlay_window,
\* position_overlay_dropdown_top); the repetitions are kept as one.
overlay_config_access ==
    <<Acq("overlay_config"), Rel("overlay_config")>>

\* show_overlay: the flag in a block of its own and, when it was false,
\* the overlay configuration.
show_overlay ==
    { <<Acq("is_overlay_visible"), Rel("is_overlay_visible")>>,
      <<Acq("is_overlay_visible"), Rel("is_overlay_visible")>> \o overlay_config_access }

hide_overlay ==
    { <<Acq("is_overlay_visible"), Rel("is_overlay_visible")>> }

\* toggle_overlay reads the flag in a block, then calls one of the two.
toggle_overlay ==
    { <<Acq("is_overlay_visible"), Rel("is_overlay_visible")>> \o path :
        path \in show_overlay \cup hide_overlay }

\* The overlay commands of lib.rs hold window_manager around the call.
overlay_command ==
    { <<Acq("window_manager")>> \o path \o <<Rel("window_manager")>> :
        path \in show_overlay \cup hide_overlay \cup toggle_overlay }

\* The register_hotkey command: hotkey_service, inside it next_id in a
\* block and then registered_hotkeys in a block.
register_hotkey_command ==
    <<Acq("hotkey_service"), Acq("next_id"), Rel("next_id"),
      Acq("registered_hotkeys"), Rel("registered_hotkeys"), Rel("hotkey_service")>>

\* unregister_hotkey, get_registered_hotkeys.
unregister_hotkey_command ==
    <<Acq("hotkey_service"), Acq("registered_hotkeys"), Rel("registered_hotkeys"),
      Rel("hotkey_service")>>

\* The switch_profile: arm of the hotkey callback with the order swapped.
switch_profile_callback_config_first ==
    <<Acq("config_manager"), Acq("profile_manager"),
      Rel("profile_manager"), Rel("config_manager")>>

\* The switch_profile: arm of the hotkey callback.
switch_profile_callback ==
    <<Acq("profile_manager"), Acq("config_manager"),
      Rel("config_manager"), Rel("profile_manager")>>

\* The callback works on a clone of the WindowManager, not on the mutex of
\* the application state.
hotkey_callback ==
    show_overlay \cup hide_overlay \cup toggle_overlay
        \cup {switch_profile_callback, <<>>}

\* WM_HOTKEY in windows_message_loop: the registry guard is held while the
\* callback runs.
windows_message_loop ==
    { <<Acq("registered_hotkeys")>> \o path \o <<Rel("registered_hotkeys")>> :
        path \in hotkey_callback }

\* The window event handlers (focus lost, close requested, Escape).
window_event ==
    hide_overlay

Workers ==
    1..MaxWorkers

\* The message loop thread and the thread of the window events.
HotkeyThread ==
    0

MainThread ==
    MaxWorkers + 1

Threads ==
    Workers \cup {HotkeyThread, MainThread}

PathsOf(thread) ==
    IF thread = HotkeyThread THEN windows_message_loop
    ELSE IF thread = MainThread THEN window_event
    ELSE {navigation_command, config_command, register_hotkey_command,
          unregister_hotkey_command} \cup overlay_command

Free ==
    -1

\* windows: for each thread the operations it still has to perform;
\* stack: for each mutex the thread that holds it.
LockInit ==
    /\ input = <<>>
    /\ windows = [thread \in Threads |-> <<>>]
    /\ phase = "locks"
    /\ stack = [lock \in MutexNames |-> Free]
    /\ ret = None
    /\ clock = 0
    /\ log = <<>>

\* A command is invoked, a WM_HOTKEY message or a window event arrives, and
\* the first lock() of the path returns.  (A thread that waits for its
\* first mutex holds none, so no other thread waits for it: it is kept as
\* a thread that has not begun.)
BeginPath ==
    /\ \E thread \in Threads :
         /\ windows[thread] = <<>>
         /\ \E path \in PathsOf(thread) :
              /\ path # <<>>
              /\ stack[Head(path).lock] = Free
              /\ stack' = [stack EXCEPT ![Head(path).lock] = thread]
              /\ windows' = [windows EXCEPT ![thread] = Tail(path)]
    /\ UNCHANGED <<input, phase, ret, clock, log>>

\* Mutex::lock returns when the mutex is free.
LockMutex ==
    /\ \E thread \in Threads :
         /\ windows[thread] # <<>>
         /\ Head(windows[thread]).op = "lock"
         /\ stack[Head(windows[thread]).lock] = Free
         /\ stack' = [stack EXCEPT ![Head(windows[thread]).lock] = thread]
         /\ windows' = [windows EXCEPT ![thread] = Tail(@)]
    /\ UNCHANGED <<input, phase, ret, clock, log>>

\* The guard is dropped.
UnlockMutex ==
    /\ \E thread \in Threads :
         /\ windows[thread] # <<>>
         /\ Head(windows[thread]).op = "unlock"
         /\ stack' = [stack EXCEPT ![Head(windows[thread]).lock] = Free]
         /\ windows' = [windows EXCEPT ![thread] = Tail(@)]
    /\ UNCHANGED <<input, phase, ret, clock, log>>

LockNext ==
    \/ BeginPath
    \/ LockMutex
    \/ UnlockMutex

LockSpec ==
    LockInit /\ [][LockNext]_vars

(***************************************************************************)
(* Properties of the locking.                                              *)
(***************************************************************************)
HeldBy(thread) ==
    {lock \in MutexNames : stack[lock] = thread}

Wants(thread, lock) ==
    /\ windows[thread] # <<>>
    /\ Head(windows[thread]) = Acq(lock)

\* A set of threads each of which waits for a mutex held inside the set.
Deadlocked(threads) ==
    /\ threads # {}
    /\ \A thread \in threads :
          \E lock \in MutexNames : Wants(thread, lock) /\ stack[lock] \in threads

\* The one global order.
Rank(lock) ==
    CASE lock = "hotkey_service" -> 1
      [] lock = "window_manager" -> 2
      [] lock = "next_id" -> 3
      [] lock = "registered_hotkeys" -> 4
      [] lock = "profile_manager" -> 5
      [] lock = "config_manager" -> 6
      [] lock = "is_overlay_visible" -> 7
      [] lock = "overlay_config" -> 8

\* C37: no interleaving of command handlers and hotkey callbacks
\* deadlocks: every path that holds more than one lock takes them in one
\* global order (hotkey registry before profile_manager before
\* config_manager; window_manager before the overlay visibility and
\* overlay config locks), and no path takes a lock it already holds.
C37_NoDeadlock ==
    /\ \A threads \in SUBSET Threads : ~Deadlocked(threads)
    /\ \A thread \in Threads, lock \in MutexNames :
          Wants(thread, lock) =>
              /\ lock \notin HeldBy(thread)
              /\ \A held \in HeldBy(thread) : Rank(held) < Rank(lock)

\* The message loop thread holds the registry and profile_manager and waits
\* for config_manager, which a save_config holds, while a navigation command
\* on the other worker waits for the message loop thread.
C37_Witness ==
    /\ HeldBy(HotkeyThread) = {"registered_hotkeys", "profile_manager"}
    /\ Wants(HotkeyThread, "config_manager")
    /\ HeldBy(1) = {"config_manager"}
    /\ HeldBy(2) = {"hotkey_service"}
    /\ Wants(2, "registered_hotkeys")


(***************************************************************************)
(* The overlay window (modules/window.rs).  stack holds the flag           *)
(* is_overlay_visible, the state of the window labelled "overlay" (none,   *)
(* hidden or visible) and, of the overlay configuration, the `visible`     *)
(* field and where width and height come from; ret holds the last call, its result, whether it reached  *)
(* the window, and which call last wrote the flag.                         *)
(***************************************************************************)
OverlayState(is_overlay_visible, window, visible, size) ==
    [is_overlay_visible |-> is_overlay_visible, window |-> window, visible |-> visible,
     size |-> size]

OverlayCall(op, tag, error, attempted, last) ==
    [op |-> op, tag |-> tag, error |-> error, attempted |-> attempted, last |-> last]

\* The places where show_overlay returns through a `?`, and "none".
ShowFailures ==
    {"none", "calculate_and_update_window_size", "position_overlay_dropdown_top",
     "show", "set_focus", "build"}

\* show_overlay on a state: the new state and the Result.
show_overlay_result(state, failure) ==
    IF state.is_overlay_visible
    THEN [state |-> state, tag |-> "Ok", error |-> "", attempted |-> FALSE]
    ELSE LET entered == [state EXCEPT !.is_overlay_visible = TRUE]
             flagged == [entered EXCEPT !.size = "calculated"]
         IN  IF failure = "calculate_and_update_window_size"
             THEN [state |-> entered, tag |-> "Err", error |-> failure, attempted |-> FALSE]
             ELSE IF state.window # "none"
             THEN \* the existing window: configure, position, show, set_focus
                  IF failure \in {"position_overlay_dropdown_top", "show"}
                  THEN [state |-> flagged, tag |-> "Err", error |-> failure, attempted |-> TRUE]
                  ELSE IF failure = "set_focus"
                  THEN [state |-> [flagged EXCEPT !.window = "visible"],
                        tag |-> "Err", error |-> failure, attempted |-> TRUE]
                  ELSE [state |-> [flagged EXCEPT !.window = "visible"],
                        tag |-> "Ok", error |-> "", attempted |-> TRUE]
             ELSE \* create_overlay_window, then the position
                  IF failure = "build"
                  THEN [state |-> flagged, tag |-> "Err", error |-> failure, attempted |-> TRUE]
                  ELSE [state |-> [flagged EXCEPT !.window =
                                      IF state.visible THEN "visible" ELSE "hidden"],
                        tag |-> IF failure = "position_overlay_dropdown_top"
                                THEN "Err" ELSE "Ok",
                        error |-> IF failure = "position_overlay_dropdown_top"
                                  THEN failure ELSE "",
                        attempted |-> TRUE]

\* hide_overlay on a state; hide_fails is the `?` on overlay_window.hide().
hide_overlay_result(state, hide_fails) ==
    IF ~state.is_overlay_visible
    THEN [state |-> state, tag |-> "Ok", error |-> "", attempted |-> FALSE]
    ELSE LET unflagged == [state EXCEPT !.is_overlay_visible = FALSE]
         IN  IF state.window = "none"
             THEN [state |-> unflagged, tag |-> "Ok", error |-> "", attempted |-> FALSE]
             ELSE IF hide_fails
             THEN [state |-> unflagged, tag |-> "Err", error |-> "hide", attempted |-> TRUE]
             ELSE [state |-> [unflagged EXCEPT !.window = "hidden"],
                   tag |-> "Ok", error |-> "", attempted |-> TRUE]

\* Which call last wrote the flag.
LastWriter(before, result, name) ==
    IF result.state.is_overlay_visible # before.is_overlay_visible
    THEN IF name = "hide_overlay" THEN "hide"
         ELSE IF result.tag = "Ok" THEN "show completed" ELSE "show failed"
    ELSE ret.last

OverlayInit ==
    /\ input = <<>>
    /\ windows = TRUE
    /\ phase = "overlay"
    /\ stack = OverlayState(FALSE, "none", FALSE, "default")
    /\ ret = OverlayCall("new", "Ok", "", FALSE, "new")
    /\ clock = 0
    /\ log = <<>>

ShowOverlay ==
    /\ phase = "overlay"
    /\ \E failure \in ShowFailures :
         LET result == show_overlay_result(stack, failure)
         IN  /\ stack' = result.state
             /\ ret' = OverlayCall("show_overlay", result.tag, result.error, result.attempted,
                                   LastWriter(stack, result, "show_overlay"))
    /\ UNCHANGED <<input, windows, phase, clock, log>>

\* Called by the command, the hotkey callback and the window event handlers.
HideOverlay ==
    /\ phase = "overlay"
    /\ \E hide_fails \in BOOLEAN :
         LET result == hide_overlay_result(stack, hide_fails)
         IN  /\ stack' = result.state
             /\ ret' = OverlayCall("hide_overlay", result.tag, result.error, result.attempted,
                                   LastWriter(stack, result, "hide_overlay"))
    /\ UNCHANGED <<input, windows, phase, clock, log>>

\* toggle_overlay reads the flag and calls one of the two.
ToggleOverlay ==
    /\ phase = "overlay"
    /\ \E failure \in ShowFailures, hide_fails \in BOOLEAN :
         LET result == IF stack.is_overlay_visible
                       THEN hide_overlay_result(stack, hide_fails)
                       ELSE show_overlay_result(stack, failure)
         IN  /\ stack' = result.state
             /\ ret' = OverlayCall("toggle_overlay", result.tag, result.error,
                                   result.attempted,
                                   LastWriter(stack, result,
                                              IF stack.is_overlay_visible
                                              THEN "hide_overlay" ELSE "show_overlay"))
    /\ UNCHANGED <<input, windows, phase, clock, log>>

\* update_overlay_config stores the configuration; configure_overlay_window
\* sets size and position only.
UpdateOverlayConfig ==
    /\ phase = "overlay"
    /\ \E visible \in BOOLEAN :
         stack' = [stack EXCEPT !.visible = visible, !.size = "given"]
    /\ ret' = [ret EXCEPT !.op = "update_overlay_config", !.tag = "Ok", !.error = "",
                          !.attempted = FALSE]
    /\ UNCHANGED <<input, windows, phase, clock, log>>

OverlayNext ==
    \/ ShowOverlay
    \/ HideOverlay
    \/ ToggleOverlay
    \/ UpdateOverlayConfig

OverlaySpec ==
    OverlayInit /\ [][OverlayNext]_vars

(***************************************************************************)
(* Properties of the flag.                                                 *)
(***************************************************************************)
is_overlay_visible ==
    stack.is_overlay_visible

\* A call that was to show the window and returned an error.
ShowFailedStep ==
    /\ ret'.op \in {"show_overlay", "toggle_overlay"}
    /\ ret'.tag = "Err"
    /\ ~stack.is_overlay_visible

\* C38: the flag follows the window: after any sequence of show_overlay,
\* hide_overlay and toggle_overlay calls, failing ones included,
\* is_overlay_visible() is true only if the last show_overlay since the
\* last hide completed successfully; a failed show_overlay leaves the flag
\* false, so a later show_overlay or toggle_overlay tries again.
C38_FlagFollowsWindow ==
    /\ [](phase = "overlay" /\ is_overlay_visible => ret.last = "show completed")
    /\ [][ShowFailedStep => ~stack'.is_overlay_visible]_vars

\* What the code guarantees: the flag is true exactly when the call that
\* last wrote it was a show, completed or failed; a show_overlay on a true
\* flag returns Ok without touching the window.
C38_FlagFollowsLastCall ==
    /\ [](phase = "overlay" =>
            (is_overlay_visible <=> ret.last \in {"show completed", "show failed"}))
    /\ [][stack.is_overlay_visible /\ ret'.op = "show_overlay"
            => stack' = stack /\ ret'.tag = "Ok" /\ ~ret'.attempted]_vars

\* A show_overlay that failed before it reached the window left the flag
\* true; the next show_overlay returned Ok and did nothing: no window.
C38_Witness ==
    /\ phase = "overlay"
    /\ is_overlay_visible
    /\ ret.last = "show failed"
    /\ stack.window = "none"
    /\ ret = OverlayCall("show_overlay", "Ok", "", FALSE, "show failed")


(***************************************************************************)
(* The configuration held by ConfigManager (modules/config.rs).  Of a      *)
(* QDeckConfig the fields that validate_config reads are kept; opacity is  *)
(* in hundredths.  A YAML document is kept as the value it parses to, or   *)
(* as Unparsable.                                                          *)
(***************************************************************************)
WindowFields(width_px, height_px, opacity) ==
    [width_px |-> width_px, height_px |-> height_px, opacity |-> opacity]

ButtonFields(row, col, label) ==
    [position |-> [row |-> row, col |-> col], label |-> label]

PageFields(name, rows, cols, buttons) ==
    [name |-> name, rows |-> rows, cols |-> cols, buttons |-> buttons]

ProfileFields(name, pages) ==
    [name |-> name, pages |-> pages]

ConfigFields(version, window, profiles) ==
    [version |-> version, window |-> window, profiles |-> profiles]

QDeckConfig_default ==
    ConfigFields("1.0", WindowFields(1000, 600, 92),
                 <<ProfileFields("Default", <<PageFields("Main", 3, 6, <<>>)>>)>>)

\* The checks of validate_config in the order of the code; "" for Ok(()).
validate_buttons(page) ==
    LET failing == {b \in 1..Len(page.buttons) :
                       \/ page.buttons[b].position.row > page.rows
                       \/ page.buttons[b].position.col > page.cols
                       \/ page.buttons[b].label = ""}
        first == CHOOSE b \in failing : \A other \in failing : b <= other
    IN  IF failing = {} THEN ""
        ELSE IF \/ page.buttons[first].position.row > page.rows
                \/ page.buttons[first].position.col > page.cols
        THEN "Button position exceeds page dimensions"
        ELSE "Button label cannot be empty"

validate_page(page) ==
    IF page.name = "" THEN "Page name cannot be empty"
    ELSE IF page.rows = 0 \/ page.cols = 0 THEN "Page dimensions must be greater than 0"
    ELSE validate_buttons(page)

validate_pages(pages) ==
    LET failing == {p \in 1..Len(pages) : validate_page(pages[p]) # ""}
    IN  IF failing = {} THEN ""
        ELSE validate_page(pages[CHOOSE p \in failing : \A other \in failing : p <= other])

validate_profile(profile) ==
    IF profile.name = "" THEN "Profile name cannot be empty"
    ELSE IF profile.pages = <<>> THEN "Profile must have at least one page"
    ELSE validate_pages(profile.pages)

validate_profiles(profiles) ==
    LET failing == {p \in 1..Len(profiles) : validate_profile(profiles[p]) # ""}
    IN  IF failing = {} THEN ""
        ELSE validate_profile(profiles[CHOOSE p \in failing : \A other \in failing : p <= other])

validate_config(config) ==
    IF config.version = "" THEN "Config version cannot be empty"
    ELSE IF config.window.width_px = 0 \/ config.window.height_px = 0
    THEN "Window dimensions must be greater than 0"
    ELSE IF config.window.opacity < 0 \/ config.window.opacity > 100
    THEN "Window opacity must be between 0.0 and 1.0"
    ELSE IF config.profiles = <<>> THEN "At least one profile must be defined"
    ELSE validate_profiles(config.profiles)

\* The documents of the model: version and window at valid values and at
\* values a check of validate_config refuses, with the default profiles;
\* and profiles, pages and buttons at such values, with a valid version
\* and window.
DocumentWindows ==
    {WindowFields(1000, 600, 92), WindowFields(0, 600, 92), WindowFields(1000, 0, 92),
     WindowFields(1000, 600, -10), WindowFields(1000, 600, 110)}

DocumentButtons ==
    {<<>>} \cup { <<ButtonFields(at[1], at[2], label)>> :
                    at \in {<<1, 1>>, <<4, 1>>, <<1, 7>>}, label \in {"", "b"} }

DocumentPages ==
    {<<>>} \cup { <<PageFields(name, size[1], size[2], buttons)>> :
                    name \in {"", "Main"}, size \in {<<3, 6>>, <<1, 1>>, <<0, 6>>, <<3, 0>>},
                    buttons \in DocumentButtons }

DocumentProfiles ==
    {<<>>} \cup { <<ProfileFields(name, pages)>> :
                    name \in {"", "Default"}, pages \in DocumentPages }

Unparsable ==
    ConfigFields("not YAML", WindowFields(0, 0, 0), <<>>)

Documents ==
    { ConfigFields(version, window, QDeckConfig_default.profiles) :
        version \in {"", "1.0"}, window \in DocumentWindows }
    \cup { ConfigFields("1.0", WindowFields(1000, 600, 92), profiles) :
             profiles \in DocumentProfiles }

\* The last call and its result; installed: self.config has been assigned
\* since new.
ConfigResult(op, tag, error, installed) ==
    [op |-> op, tag |-> tag, error |-> error, installed |-> installed]

\* ConfigManager::new: the file is parsed and taken as it is, or, when
\* there is none, the default configuration is written and taken.  stack
\* is self.config.
ConfigInit ==
    /\ input = <<>>
    /\ stack \in Documents \cup {QDeckConfig_default}
    /\ windows = TRUE
    /\ phase = "config"
    /\ ret = ConfigResult("new", "Ok", "", FALSE)
    /\ clock = 0
    /\ log = <<>>

\* update_config: validate, assign, save; the save may fail.
UpdateConfig ==
    /\ phase = "config"
    /\ \E config \in Documents, saved \in BOOLEAN :
         LET refused == validate_config(config)
         IN  IF refused # ""
             THEN /\ ret' = ConfigResult("update_config", "Err", refused, ret.installed)
                  /\ UNCHANGED stack
             ELSE /\ stack' = config
                  /\ ret' = IF saved THEN ConfigResult("update_config", "Ok", "", TRUE)
                            ELSE ConfigResult("update_config", "Err",
                                              "Failed to write config file", TRUE)
    /\ UNCHANGED <<input, windows, phase, clock, log>>

\* import_config: read and parse, validate, assign, save.
ImportConfig ==
    /\ phase = "config"
    /\ \E document \in Documents \cup {Unparsable}, saved \in BOOLEAN :
         IF document = Unparsable
         THEN /\ ret' = ConfigResult("import_config", "Err",
                                     "Failed to parse imported config YAML",
                                     ret.installed)
              /\ UNCHANGED stack
         ELSE LET refused == validate_config(document)
              IN  IF refused # ""
                  THEN /\ ret' = ConfigResult("import_config", "Err", refused, ret.installed)
                       /\ UNCHANGED stack
                  ELSE /\ stack' = document
                       /\ ret' = IF saved THEN ConfigResult("import_config", "Ok", "", TRUE)
                                 ELSE ConfigResult("import_config", "Err",
                                                   "Failed to write config file", TRUE)
    /\ UNCHANGED <<input, windows, phase, clock, log>>

ConfigNext ==
    \/ UpdateConfig
    \/ ImportConfig

ConfigSpec ==
    ConfigInit /\ [][ConfigNext]_vars

(***************************************************************************)
(* Properties of the held configuration.                                   *)
(***************************************************************************)
Held ==
    stack

Satisfies(config) ==
    validate_config(config) = ""

\* The errors that are not refusals of validate_config.
OtherErrors ==
    {"", "Failed to write config file", "Failed to parse imported config YAML"}

\* A call that installs: after it the held configuration is valid; a call
\* refused by validation leaves the held configuration as it was.
InstalledValid ==
    [][/\ stack' # stack => Satisfies(stack')
       /\ ret'.error \notin OtherErrors => stack' = stack]_vars

\* C39: the configuration held by ConfigManager always satisfies
\* validate_config, whether it was loaded from the file by new or
\* installed by update_config or import_config; a configuration rejected
\* by validation never replaces the current one.
C39_HeldConfigValid ==
    /\ [](phase = "config" => Satisfies(Held))
    /\ InstalledValid

\* What the code guarantees: update_config and import_config install valid
\* configurations only and a refused one changes nothing, so the held
\* configuration is valid from the first installation on (and, as every
\* change leads to a valid one, from the start when the file was valid or
\* absent).
C39_ValidOnceInstalled ==
    /\ [](phase = "config" /\ ret.installed => Satisfies(Held))
    /\ InstalledValid

\* new has loaded a file whose profiles list is empty, and an update_config
\* with a configuration that validation refuses has left it in place.
C39_Witness ==
    /\ phase = "config"
    /\ Held = ConfigFields("1.0", WindowFields(1000, 600, 92), <<>>)
    /\ ret = ConfigResult("update_config", "Err", "Config version cannot be empty", FALSE)


(***************************************************************************)
(* Navigation while the configuration is replaced (lib.rs save_config and  *)
(* the navigation commands).  The ProfileManager and the ConfigManager are *)
(* two fields of the application state; save_config writes the second      *)
(* only.  input is the configuration held by the ConfigManager (its        *)
(* profiles), stack the ProfileState, ret the last command and its result. *)
(***************************************************************************)
get_current_page(state, config) ==
    IF state.current_profile_index >= Len(config)
    THEN NavErr("Current profile index is out of bounds")
    ELSE IF state.current_page_index >= config[state.current_profile_index + 1].pages
    THEN NavErr("Current page index is out of bounds for profile")
    ELSE NavOk(PageInfo(state.current_page_index))

get_current_profile_and_page(state, config) ==
    IF state.current_profile_index >= Len(config)
    THEN NavErr("Current profile index is out of bounds")
    ELSE IF state.current_page_index >= config[state.current_profile_index + 1].pages
    THEN NavErr("Current page index is out of bounds for profile")
    ELSE NavOk(ProfileInfo(config[state.current_profile_index + 1].name,
                           state.current_profile_index,
                           config[state.current_profile_index + 1].pages,
                           state.current_page_index))

\* The NavigationContext is built from the pair; its `?` passes the error on.
get_navigation_context(state, config) ==
    get_current_profile_and_page(state, config)

\* update_config on the profiles: validate_config asks for one profile and
\* for a page in each.
update_config(held, config, saved) ==
    IF config = <<>>
    THEN [config |-> held, returned |-> NavErr("At least one profile must be defined")]
    ELSE IF \E p \in 1..Len(config) : config[p].pages = 0
    THEN [config |-> held, returned |-> NavErr("Profile must have at least one page")]
    ELSE [config |-> config,
          returned |-> IF saved THEN NavOk(NoInfo)
                       ELSE NavErr("Failed to write config file")]

\* The configurations a save_config command brings: the valid ones and two
\* that validation refuses.
SavedConfigs ==
    NavConfigs \cup {<<>>, <<Profile("A", 0)>>}

\* The save_config command: config_manager.update_config(config); the
\* profile_manager is not touched.
SaveConfig ==
    /\ phase = "ready"
    /\ \E config \in SavedConfigs, saved \in BOOLEAN :
         LET updated == update_config(input, config, saved)
         IN  /\ input' = updated.config
             /\ ret' = Method("save_config", updated.returned)
    /\ UNCHANGED <<windows, phase, stack, clock, log>>

GetCurrentPage ==
    /\ phase = "ready"
    /\ ret' = Method("get_current_page", get_current_page(stack, input))
    /\ UNCHANGED <<input, windows, phase, stack, clock, log>>

GetNavigationContext ==
    /\ phase = "ready"
    /\ ret' = Method("get_navigation_context", get_navigation_context(stack, input))
    /\ UNCHANGED <<input, windows, phase, stack, clock, log>>

SaveNext ==
    \/ NavInitialize
    \/ NavSwitchToProfile
    \/ NavSwitchToProfileByName
    \/ NavSwitchToPage
    \/ NavNextPage
    \/ NavPreviousPage
    \/ SaveConfig
    \/ GetCurrentPage
    \/ GetNavigationContext

SaveSpec ==
    NavigationInit /\ [][SaveNext]_vars

(***************************************************************************)
(* Properties of the navigation state under save_config.                   *)
(***************************************************************************)
OutOfBoundsErrors ==
    {"Current profile index is out of bounds",
     "Current page index is out of bounds for profile",
     "Page index is out of bounds for profile"}

\* The commands the claim names.
BoundsReaders ==
    {"get_current_page", "get_navigation_context", "next_page", "previous_page"}

\* C40: navigation state stays valid when the configuration is replaced:
\* after any interleaving of save_config calls with valid configurations
\* (which may have fewer profiles or pages than before) and navigation
\* commands, current_profile_index and current_page_index are within the
\* bounds of the current configuration, so get_current_page,
\* get_navigation_context, next_page and previous_page never fail with an
\* out-of-bounds error.
C40_ValidAfterSaveConfig ==
    /\ [](phase = "ready" => InBounds(stack, input))
    /\ [][ret'.op \in BoundsReaders => ret'.returned.error \notin OutOfBoundsErrors]_vars

\* What the code guarantees: a navigation command keeps the indices within
\* the configuration it is given and never changes the configuration, so
\* only save_config takes them out of bounds; and get_current_page and
\* get_navigation_context succeed exactly when the indices are in bounds.
C40_BoundsKeptBetweenSaves ==
    /\ [][ret'.op # "save_config" /\ InBounds(stack, input)
            => input' = input /\ InBounds(stack', input')]_vars
    /\ [][ret'.op = "save_config" => stack' = stack]_vars
    /\ [](/\ phase = "ready"
          /\ ret.op \in {"get_current_page", "get_navigation_context"}
          => (ret.returned.tag = "Ok" <=> InBounds(stack, input)))

\* On the third page of profile A, a save_config brought a configuration
\* whose profile A has one page; get_current_page then failed.
C40_Witness ==
    /\ phase = "ready"
    /\ input = <<Profile("A", 1)>>
    /\ stack.current_profile_index = 0
    /\ stack.current_page_index = MaxPages - 1
    /\ ret = Method("get_current_page",
                    NavErr("Current page index is out of bounds for profile"))

====
